---------------------------- MODULE Spec2Model ----------------------------
(***************************************************************************)
(* A model of the ray tracer cfeitong/ray-tracing: the vector algebra      *)
(* (util.rs), the shapes and the World integrator (object.rs), rays and    *)
(* hit records (ray.rs), the materials (material/basic.rs,                 *)
(* material/compose.rs) and the lights (light.rs).                         *)
(*                                                                         *)
(* Numbers.  An f64 is modelled by an exact rational <<n, d>> in lowest    *)
(* terms with d > 0, or by one of the three non-finite values <<0, 0>>     *)
(* (NaN), <<1, 0>> (+inf) and <<-1, 0>> (-inf).  Rounding is not           *)
(* modelled: the inputs are chosen so that every square root the code      *)
(* takes is the root of a perfect square.  A comparison with NaN is        *)
(* false, as in IEEE 754.                                                  *)
(***************************************************************************)
EXTENDS Integers, Sequences, FiniteSets, TLC

(***************************************************************************)
(* f64                                                                     *)
(***************************************************************************)
Abs(i) == IF i < 0 THEN -i ELSE i

Sgn(i) == IF i < 0 THEN -1 ELSE IF i = 0 THEN 0 ELSE 1

RECURSIVE Gcd(_, _)
Gcd(a, b) == IF b = 0 THEN a ELSE Gcd(b, a % b)

\* the f64 n/d, in lowest terms
Q(n, d) ==
    IF d = 0 THEN <<Sgn(n), 0>>
    ELSE LET g == Gcd(Abs(n), Abs(d))
         IN  <<Sgn(d) * (n \div g), Abs(d) \div g>>

I(n) == <<n, 1>>

NaN == <<0, 0>>

IsNaN(a) == a = NaN

IsFinite(a) == a[2] # 0

FNeg(a) == <<-a[1], a[2]>>

FAdd(a, b) ==
    IF IsNaN(a) \/ IsNaN(b) THEN NaN
    ELSE IF ~IsFinite(a) /\ ~IsFinite(b) THEN (IF a = b THEN a ELSE NaN)
    ELSE IF ~IsFinite(a) THEN a
    ELSE IF ~IsFinite(b) THEN b
    ELSE LET g == Gcd(a[2], b[2])
         IN  Q(a[1] * (b[2] \div g) + b[1] * (a[2] \div g), (a[2] \div g) * b[2])

FSub(a, b) == FAdd(a, FNeg(b))

FMul(a, b) ==
    IF IsNaN(a) \/ IsNaN(b) THEN NaN
    ELSE IF ~IsFinite(a) \/ ~IsFinite(b) THEN <<Sgn(a[1]) * Sgn(b[1]), 0>>
    ELSE LET g1 == Gcd(Abs(a[1]), b[2])
             g2 == Gcd(Abs(b[1]), a[2])
         IN  Q((a[1] \div g1) * (b[1] \div g2), (a[2] \div g2) * (b[2] \div g1))

\* 1/a; 1/0 is +inf (the sign of a zero is not modelled)
FInv(a) ==
    IF IsNaN(a) THEN NaN
    ELSE IF ~IsFinite(a) THEN I(0)
    ELSE IF a[1] = 0 THEN <<1, 0>>
    ELSE <<Sgn(a[1]) * a[2], Abs(a[1])>>

FDiv(a, b) == FMul(a, FInv(b))

FLt(a, b) ==
    IF IsNaN(a) \/ IsNaN(b) THEN FALSE
    ELSE IF ~IsFinite(a) /\ ~IsFinite(b) THEN a[1] < b[1]
    ELSE IF ~IsFinite(a) THEN a[1] < 0
    ELSE IF ~IsFinite(b) THEN b[1] > 0
    ELSE LET g == Gcd(a[2], b[2])
         IN  a[1] * (b[2] \div g) < b[1] * (a[2] \div g)

FGt(a, b) == FLt(b, a)

FEq(a, b) == ~IsNaN(a) /\ ~IsNaN(b) /\ a = b

FLe(a, b) == FLt(a, b) \/ FEq(a, b)

FGe(a, b) == FLe(b, a)

FAbs(a) == <<Abs(a[1]), a[2]>>

RECURSIVE ISqrtIn(_, _, _)
ISqrtIn(n, lo, hi) ==
    IF lo >= hi THEN lo
    ELSE LET mid == (lo + hi + 1) \div 2
         IN  IF mid * mid <= n THEN ISqrtIn(n, mid, hi) ELSE ISqrtIn(n, lo, mid - 1)

\* the integer square root, rounded down
ISqrt(n) == ISqrtIn(n, 0, IF n < 46340 THEN n ELSE 46340)

IsSquare(n) == n >= 0 /\ ISqrt(n) * ISqrt(n) = n

\* f64::sqrt; exact on the square of a rational, rounded down to a multiple
\* of 1/d on another n/d, NaN below zero
FSqrt(a) ==
    IF IsNaN(a) THEN NaN
    ELSE IF ~IsFinite(a) THEN (IF a[1] > 0 THEN a ELSE NaN)
    ELSE IF a[1] < 0 THEN NaN
    ELSE IF IsSquare(a[1]) /\ IsSquare(a[2]) THEN Q(ISqrt(a[1]), ISqrt(a[2]))
    ELSE Q(ISqrt(a[1] * a[2]), a[2])

\* whether FSqrt(a) is exact
ExactSqrt(a) == IsFinite(a) /\ a[1] >= 0 /\ IsSquare(a[1]) /\ IsSquare(a[2])

\* f64::powi(2)
Sq(a) == FMul(a, a)

EPS == Q(1, 1000)

(***************************************************************************)
(* Vec3 (util.rs)                                                          *)
(***************************************************************************)
Vec3(x, y, z) == <<x, y, z>>

\* vec3!(x, y, z) of three integers
V(x, y, z) == <<I(x), I(y), I(z)>>

VNaN == <<NaN, NaN, NaN>>

VIsNaN(v) == IsNaN(v[1]) \/ IsNaN(v[2]) \/ IsNaN(v[3])

dot(a, b) == FAdd(FAdd(FMul(a[1], b[1]), FMul(a[2], b[2])), FMul(a[3], b[3]))

cross(a, b) ==
    << FSub(FMul(a[2], b[3]), FMul(a[3], b[2])),
       FSub(FMul(a[3], b[1]), FMul(a[1], b[3])),
       FSub(FMul(a[1], b[2]), FMul(a[2], b[1])) >>

VNeg(a) == <<FNeg(a[1]), FNeg(a[2]), FNeg(a[3])>>

VAdd(a, b) == <<FAdd(a[1], b[1]), FAdd(a[2], b[2]), FAdd(a[3], b[3])>>

VSub(a, b) == <<FSub(a[1], b[1]), FSub(a[2], b[2]), FSub(a[3], b[3])>>

\* Vec3 * f64 and f64 * Vec3
VScale(a, k) == <<FMul(a[1], k), FMul(a[2], k), FMul(a[3], k)>>

\* Vec3 / f64
VDivS(a, k) == <<FDiv(a[1], k), FDiv(a[2], k), FDiv(a[3], k)>>

\* Vec3 * Vec3, component-wise
VMul(a, b) == <<FMul(a[1], b[1]), FMul(a[2], b[2]), FMul(a[3], b[3])>>

len2(a) == FAdd(FAdd(Sq(a[1]), Sq(a[2])), Sq(a[3]))

len(a) == FSqrt(len2(a))

unit(a) == VDivS(a, len(a))

proj_to(a, rhs) == LET n == unit(rhs) IN VScale(n, dot(a, n))

\* Sum for Vec3: iter.fold((0., 0., 0.).into(), |acc, cur| acc + cur)
RECURSIVE Fold(_, _)
Fold(acc, seq) == IF seq = <<>> THEN acc ELSE Fold(VAdd(acc, Head(seq)), Tail(seq))

Vec3_sum(seq) == Fold(V(0, 0, 0), seq)

\* whether unit(a) is exact: the length of a is rational and not zero
ExactUnit(a) == ExactSqrt(len2(a)) /\ len2(a) # I(0)

(***************************************************************************)
(* Option<T>: None is the empty sequence, Some(x) the sequence <<x>>.      *)
(***************************************************************************)
None == <<>>

Some(x) == <<x>>

IsSome(o) == Len(o) = 1

IsNone(o) == Len(o) = 0

\* Option::or: the first operand when it is Some, the second otherwise
OptOr(a, b) == IF IsSome(a) THEN a ELSE b

(***************************************************************************)
(* Ray and HitInfo (ray.rs)                                                *)
(***************************************************************************)
\* the struct literal Ray { pos, dir }
Ray(pos, dir) == [pos |-> pos, dir |-> dir]

\* Ray::new normalises the direction; the zero direction becomes NaN
Ray_new(pos, dir) == Ray(pos, unit(dir))

\* the test `norm.dot(dir_in) > -EPS` of HitInfo::new
FlipNormal(norm, dir_in) == FGt(dot(norm, dir_in), FNeg(EPS))

\* the struct literal HitInfo { .. } at the end of HitInfo::new, with
\* dir_out the mirror image of dir_in
HitInfo(distance, norm, hit_point, dir_in, outward) ==
    [ distance  |-> distance,
      norm      |-> norm,
      hit_point |-> hit_point,
      dir_in    |-> dir_in,
      dir_out   |-> unit(VSub(dir_in, VScale(proj_to(dir_in, norm), I(2)))),
      outward   |-> outward ]

\* HitInfo::new after the two normalisations: the normal is negated when
\* the test of FlipNormal says so
HitInfo_facing(distance, norm, hit_point, dir_in) ==
    IF FlipNormal(norm, dir_in)
    THEN HitInfo(distance, VNeg(norm), hit_point, dir_in, TRUE)
    ELSE HitInfo(distance, norm, hit_point, dir_in, FALSE)

HitInfo_new(distance, norm, hit_point, dir_in) ==
    HitInfo_facing(distance, unit(norm), hit_point, unit(dir_in))

\* an origin on the surface itself
posOnSurface(hit) == hit.hit_point

\* HitInfo::pos
pos(hit) == VAdd(hit.hit_point, VScale(hit.dir_out, EPS))

\* HitInfo::reflect
reflect(hit) == Ray(pos(hit), hit.dir_out)

\* the discriminant of HitInfo::refract, from cos = uv.dot(n)
Discriminant(cos, ratio) == FSub(I(1), FMul(Sq(ratio), FSub(I(1), Sq(cos))))

\* the direction of the refracted ray
RefractDir(uv, n, cos, ratio, discriminant) ==
    VSub(VScale(VSub(uv, VScale(n, cos)), ratio), VScale(n, FSqrt(discriminant)))

\* the refracted ray leaves from hit_point + EPS * dir
RefractRay(hit_point, dir) == Ray(VAdd(hit_point, VScale(dir, EPS)), dir)

\* the branch `if discriminant > 0.` of HitInfo::refract
RefractBranch(hit, cos, ratio, discriminant) ==
    IF FGt(discriminant, I(0))
    THEN Some(RefractRay(hit.hit_point,
                         RefractDir(hit.dir_in, hit.norm, cos, ratio, discriminant)))
    ELSE None

RefractCos(hit, cos, ratio) == RefractBranch(hit, cos, ratio, Discriminant(cos, ratio))

\* HitInfo::refract
refract(hit, ratio) == RefractCos(hit, dot(hit.dir_in, hit.norm), ratio)

\* f64::powi(5)
Pow5(x) == FMul(x, Sq(Sq(x)))

\* `r0 + (1. - r0) * (1. - cos).powi(5)`
Schlick(r0, cos) == FAdd(r0, FMul(FSub(I(1), r0), Pow5(FSub(I(1), cos))))

\* HitInfo::reflect_prob: r0 = (1. - ior) / (1. + ior).powi(2)
reflect_prob(hit, ior) ==
    Schlick(FDiv(FSub(I(1), ior), Sq(FAdd(I(1), ior))),
            FAbs(dot(hit.dir_in, hit.norm)))

(***************************************************************************)
(* Shapes (object.rs)                                                      *)
(***************************************************************************)
Triangle(p0, p1, p2) == [kind |-> "Triangle", p0 |-> p0, p1 |-> p1, p2 |-> p2]

Triangle_normal(tri) == unit(cross(VSub(tri.p1, tri.p0), VSub(tri.p2, tri.p0)))

Triangle_is_in_plane(tri, point) ==
    FLt(FAbs(dot(VSub(tri.p0, point), Triangle_normal(tri))), EPS)

\* the two sign tests of Triangle::contain on t0, t1, t2
ContainSigns(t0, t1, t2) ==
    FGt(dot(t0, t1), FNeg(EPS)) /\ FGt(dot(t1, t2), FNeg(EPS))

\* the cross products of Triangle::contain, from the vectors to the corners
ContainCross(pp0, pp1, pp2) ==
    ContainSigns(cross(pp0, pp1), cross(pp1, pp2), cross(pp2, pp0))

Triangle_contain(tri, point) ==
    IF ~Triangle_is_in_plane(tri, point) THEN FALSE
    ELSE ContainCross(VSub(tri.p0, point), VSub(tri.p1, point), VSub(tri.p2, point))

\* the values f, u, v, t of the Moller-Trumbore test, from e1, e2, h, a, s, q
TriangleUVT(e1, e2, h, a, f, s, q, dir) ==
    [ a |-> a,
      u |-> FMul(f, dot(s, h)),
      v |-> FMul(f, dot(dir, q)),
      t |-> FMul(f, dot(e2, q)),
      n |-> cross(e1, e2) ]

TriangleHA(e1, e2, h, s, dir) ==
    TriangleUVT(e1, e2, h, dot(e1, h), FDiv(I(1), dot(e1, h)), s, cross(s, e1), dir)

\* the values a, u, v, t of Triangle::hit_info and the raw normal n
TriangleParams(tri, ray) ==
    TriangleHA(VSub(tri.p1, tri.p0), VSub(tri.p2, tri.p0),
               cross(ray.dir, VSub(tri.p2, tri.p0)), VSub(ray.pos, tri.p0), ray.dir)

\* the lower bound of the hit parameter: `t > EPS`
TriangleMinT(t) == FGt(t, EPS)

\* the early returns of Triangle::hit_info on the values p
TriangleTest(p, ray) ==
    IF FLt(FNeg(EPS), p.a) /\ FLt(p.a, EPS) THEN None
    ELSE IF FLt(p.u, I(0)) \/ FGt(p.u, I(1)) THEN None
    ELSE IF FLt(p.v, I(0)) \/ FGt(FAdd(p.u, p.v), I(1)) THEN None
    ELSE IF TriangleMinT(p.t)
         THEN Some(HitInfo_new(p.t, unit(p.n),
                               VAdd(VScale(ray.dir, p.t), ray.pos), ray.dir))
         ELSE None

Triangle_hit_info(tri, ray) == TriangleTest(TriangleParams(tri, ray), ray)

Triangle_hit_moving(tri, ray, delta) ==
    Triangle_hit_info(Triangle(VAdd(tri.p0, delta), VAdd(tri.p1, delta),
                               VAdd(tri.p2, delta)), ray)

Sphere(center, radius) == [kind |-> "Sphere", center |-> center, radius |-> radius]

\* the roots t1, t2 of Sphere::hit_info, from a, b and delta
SphereT(a, b, delta) ==
    [ delta |-> delta,
      t1 |-> FDiv(FSub(FNeg(b), FSqrt(delta)), FMul(I(2), a)),
      t2 |-> FDiv(FAdd(FNeg(b), FSqrt(delta)), FMul(I(2), a)) ]

SphereABC(a, b, c) == SphereT(a, b, FSub(Sq(b), FMul(FMul(I(4), a), c)))

SphereOC(sph, ray, oc) ==
    SphereABC(len2(ray.dir), FMul(I(2), dot(oc, ray.dir)),
              FSub(len2(oc), Sq(sph.radius)))

\* the roots t1, t2 and the discriminant of Sphere::hit_info
SphereRoots(sph, ray) == SphereOC(sph, ray, VSub(ray.pos, sph.center))

\* the normal of the sphere at point; a negative radius turns it inward
SphereNorm(sph, point) ==
    IF FLt(sph.radius, I(0))
    THEN VNeg(unit(VSub(point, sph.center)))
    ELSE unit(VSub(point, sph.center))

SpherePoint(sph, ray, t, point) ==
    Some(HitInfo_new(t, SphereNorm(sph, point), point, ray.dir))

SphereAt(sph, ray, t) == SpherePoint(sph, ray, t, VAdd(ray.pos, VScale(ray.dir, t)))

\* the smaller root whenever the sphere is not behind the ray
SphereTestFirst(sph, ray, r) ==
    IF FLt(r.delta, I(0)) THEN None
    ELSE IF FLt(r.t2, I(0)) THEN None
    ELSE SphereAt(sph, ray, r.t1)

\* the early returns of Sphere::hit_info and its choice of the root
SphereTest(sph, ray, r) ==
    IF FLt(r.delta, I(0)) THEN None
    ELSE IF FLt(r.t2, I(0)) THEN None
    ELSE SphereAt(sph, ray, IF FLt(r.t1, I(0)) THEN r.t2 ELSE r.t1)

Sphere_hit_info(sph, ray) == SphereTest(sph, ray, SphereRoots(sph, ray))

Sphere_hit_moving(sph, ray, delta) ==
    Sphere_hit_info(Sphere(VAdd(sph.center, delta), sph.radius), ray)

(***************************************************************************)
(* Square and Cube (object.rs)                                             *)
(***************************************************************************)
Square(tri0, tri1) == [kind |-> "Square", tri0 |-> tri0, tri1 |-> tri1]

\* the two triangles of Square::new on its corners
SquareOf(p0, p1, p2, p3) == Square(Triangle(p0, p1, p2), Triangle(p2, p3, p0))

\* the corners of Square::new from the half sides x2 and y2
SquareCorners(center, x2, y2) ==
    SquareOf(VAdd(VSub(center, x2), y2), VSub(VSub(center, x2), y2),
             VSub(VAdd(center, x2), y2), VAdd(VAdd(center, x2), y2))

Square_new(center, x, y, length) ==
    SquareCorners(center, VDivS(VScale(x, length), I(2)), VDivS(VScale(y, length), I(2)))

\* Square::from_points: the triangles (p0, p1, p2) and (p1, p2, p3)
Square_from_points(p0, p1, p2, p3) == Square(Triangle(p0, p1, p2), Triangle(p1, p2, p3))

\* Square::get_corners: the three points of tri0, then the last point of tri1
Square_get_corners(sq) == <<sq.tri0.p0, sq.tri0.p1, sq.tri0.p2, sq.tri1.p2>>

Square_hit_info(sq, ray) ==
    OptOr(Triangle_hit_info(sq.tri0, ray), Triangle_hit_info(sq.tri1, ray))

Square_hit_moving(sq, ray, delta) ==
    OptOr(Triangle_hit_moving(sq.tri0, ray, delta),
          Triangle_hit_moving(sq.tri1, ray, delta))

Cube(center, x, y, length) ==
    [kind |-> "Cube", center |-> center, x |-> x, y |-> y, len |-> length]

\* the six faces of Cube::squares from the unit axes x, y, z
CubeFaces(c, x, y, z, h, length) ==
    << Square_new(VAdd(c, VScale(x, h)), y, z, length),
       Square_new(VSub(c, VScale(x, h)), VNeg(y), z, length),
       Square_new(VAdd(c, VScale(y, h)), VNeg(x), z, length),
       Square_new(VSub(c, VScale(y, h)), x, z, length),
       Square_new(VAdd(c, VScale(z, h)), x, y, length),
       Square_new(VSub(c, VScale(z, h)), x, VNeg(y), length) >>

CubeAxes(c, x, y, length) ==
    CubeFaces(c, x, y, unit(cross(x, y)), FDiv(length, I(2)), length)

Cube_squares(cube) == CubeAxes(cube.center, unit(cube.x), unit(cube.y), cube.len)

\* f64::partial_cmp: "Less", "Equal", "Greater", or "None" on a NaN
partial_cmp(a, b) ==
    IF FLt(a, b) THEN "Less"
    ELSE IF FGt(a, b) THEN "Greater"
    ELSE IF FEq(a, b) THEN "Equal"
    ELSE "None"

\* the filter_map of a sequence of Options: the values of those that are Some
RECURSIVE FilterMap(_)
FilterMap(opts) ==
    IF opts = <<>> THEN <<>>
    ELSE (IF IsSome(Head(opts)) THEN <<Head(opts)[1]>> ELSE <<>>)
         \o FilterMap(Tail(opts))

\* the comparison of Cube::hit_info: `partial_cmp(..).unwrap_or(Equal)`
CubeHitCmp(a, b) == IF partial_cmp(a, b) = "None" THEN "Equal" ELSE partial_cmp(a, b)

\* Iterator::min_by with the comparison of Cube::hit_info: the fold keeps
\* the accumulator unless it compares Greater than the next element
RECURSIVE MinByOrEqual(_, _)
MinByOrEqual(acc, rest) ==
    IF rest = <<>> THEN acc
    ELSE MinByOrEqual(IF CubeHitCmp(acc.distance, Head(rest).distance) = "Greater"
                      THEN Head(rest) ELSE acc,
                      Tail(rest))

\* the hit of the first face that is hit
CubeFirst(hits) == IF hits = <<>> THEN None ELSE Some(Head(hits))

\* min_by on the hits of the faces; None when there is none
CubeNearest(hits) ==
    IF hits = <<>> THEN None ELSE Some(MinByOrEqual(Head(hits), Tail(hits)))

CubeHits(sqs, ray) == FilterMap([i \in 1..6 |-> Square_hit_info(sqs[i], ray)])

CubeHitsMoving(sqs, ray, delta) ==
    FilterMap([i \in 1..6 |-> Square_hit_moving(sqs[i], ray, delta)])

Cube_hit_info(cube, ray) == CubeNearest(CubeHits(Cube_squares(cube), ray))

Cube_hit_moving(cube, ray, delta) ==
    CubeNearest(CubeHitsMoving(Cube_squares(cube), ray, delta))

\* dyn Shape: hit_info and hit_moving dispatch on the shape
Shape_hit_info(shape, ray) ==
    CASE shape.kind = "Sphere"   -> Sphere_hit_info(shape, ray)
      [] shape.kind = "Triangle" -> Triangle_hit_info(shape, ray)
      [] shape.kind = "Square"   -> Square_hit_info(shape, ray)
      [] shape.kind = "Cube"     -> Cube_hit_info(shape, ray)

Shape_hit_moving(shape, ray, delta) ==
    CASE shape.kind = "Sphere"   -> Sphere_hit_moving(shape, ray, delta)
      [] shape.kind = "Triangle" -> Triangle_hit_moving(shape, ray, delta)
      [] shape.kind = "Square"   -> Square_hit_moving(shape, ray, delta)
      [] shape.kind = "Cube"     -> Cube_hit_moving(shape, ray, delta)

(***************************************************************************)
(* Object and Ray::hit (object.rs, ray.rs)                                 *)
(***************************************************************************)
Object(shape, material, moving_to) ==
    [shape |-> shape, material |-> material, moving_to |-> moving_to]

\* Object::moving_delta with the random draw t
moving_delta(obj, t) == VScale(obj.moving_to, t)

\* the `.map(|info| HitRecord { .. })` of Object::hit_by
HitRecord(material, info) ==
    IF IsSome(info) THEN Some([material |-> material, info |-> info[1]]) ELSE None

\* Object::hit_by with the random draw t of moving_delta
hit_by(obj, ray, t) ==
    HitRecord(obj.material, Shape_hit_moving(obj.shape, ray, moving_delta(obj, t)))

\* the comparison of Ray::hit: `partial_cmp(..).unwrap()` panics on "None"
RayHitCmp(a, b) == partial_cmp(a, b)

\* one step of min_by with the comparison c
MinByStep(c, acc, next) == IF c = "Greater" THEN next ELSE acc

\* Iterator::min_by with the comparison of Ray::hit; "panic" when unwrap does
RECURSIVE MinByUnwrap(_, _)
MinByUnwrap(acc, rest) ==
    IF rest = <<>> THEN [panic |-> FALSE, rec |-> Some(acc)]
    ELSE IF RayHitCmp(acc.info.distance, Head(rest).info.distance) = "None"
    THEN [panic |-> TRUE, rec |-> None]
    ELSE MinByUnwrap(MinByStep(RayHitCmp(acc.info.distance, Head(rest).info.distance),
                               acc, Head(rest)),
                     Tail(rest))

\* the hits of the objects, in the order of world.objects
HitsOf(ray, objects, ts) ==
    FilterMap([i \in 1..Len(objects) |-> hit_by(objects[i], ray, ts[i])])

\* min_by on the hits of the objects
RayNearest(hits) ==
    IF hits = <<>> THEN [panic |-> FALSE, rec |-> None]
    ELSE MinByUnwrap(Head(hits), Tail(hits))

\* Ray::hit; ts[i] is the random draw of the i-th object's moving_delta
Ray_hit(ray, objects, ts) == RayNearest(HitsOf(ray, objects, ts))

(***************************************************************************)
(* Lights (light.rs)                                                       *)
(***************************************************************************)
SkyLight == [kind |-> "SkyLight"]

PointLight(p) == [kind |-> "PointLight", pos |-> p, light_color |-> V(1, 1, 1)]

LightShape(shape) == [kind |-> "LightShape", shape |-> shape, color |-> V(1, 1, 1)]

\* the gradient with its two ends exchanged
SkyBlendSwapped(t) ==
    VAdd(VScale(V(1, 1, 1), t), VScale(<<Q(1, 2), Q(7, 10), I(1)>>, FSub(I(1), t)))

\* the blend of SkyLight::color_from at the parameter t
SkyBlend(t) ==
    VAdd(VScale(V(1, 1, 1), FSub(I(1), t)), VScale(<<Q(1, 2), Q(7, 10), I(1)>>, t))

SkyLight_color_from(dir) == SkyBlend(FMul(Q(1, 2), FAdd(dir[3], I(1))))

\* SkyLight::looked on the result h of ray.hit(world)
SkyLooked(h, dir) ==
    [ panic |-> h.panic,
      color |-> IF ~h.panic /\ IsNone(h.rec) THEN Some(SkyLight_color_from(dir)) ELSE None ]

\* LightShape::looked on the hit info of its shape and the result h of
\* ray.hit(world), which is only computed when the shape is hit
ShapeLooked(info, h, color) ==
    IF IsNone(info) THEN [panic |-> FALSE, color |-> None]
    ELSE [ panic |-> h.panic,
           color |-> IF h.panic THEN None
                     ELSE IF IsNone(h.rec) THEN Some(color)
                     ELSE IF FLt(info[1].distance, h.rec[1].info.distance)
                          THEN Some(color) ELSE None ]

\* `self.shape.hit_info(ray)` of a LightShape; the other lights have no shape
ShapeHitOf(light, ray) ==
    IF light.kind = "LightShape" THEN Shape_hit_info(light.shape, ray) ELSE None

\* LightSource::looked on info = self.shape.hit_info(ray) and h = ray.hit(world)
LookedWith(light, ray, info, h) ==
    CASE light.kind = "SkyLight" -> SkyLooked(h, ray.dir)
      [] light.kind = "LightShape" -> ShapeLooked(info, h, light.color)
      [] OTHER -> [panic |-> FALSE, color |-> None]

\* LightSource::looked: [panic, color], color an Option<Color>
looked(light, ray, objects, ts) ==
    LookedWith(light, ray, ShapeHitOf(light, ray), Ray_hit(ray, objects, ts))

(***************************************************************************)
(* The shadow rays of the lights (light.rs)                                *)
(***************************************************************************)
\* PointLight::dir_at
PointLight_dir_at(light, hit) == unit(VSub(pos(hit), light.pos))

\* the ray PointLight::is_in_shadow sends: Ray::new(hit.pos(), -dir_at(hit))
PointLight_shadow_ray(light, hit) == Ray_new(pos(hit), VNeg(PointLight_dir_at(light, hit)))

\* the ray of LightSource::is_in_shadow, of SkyLight and of LightShape
Default_shadow_ray(hit) == reflect(hit)

ParallelLight(dir) == [kind |-> "ParallelLight", dir |-> dir, light_color |-> V(1, 1, 1)]

\* LightSource::intensity on info = self.shape.hit_info(&hit.reflect())
IntensityWith(light, hit, info) ==
    CASE light.kind = "PointLight" -> FDiv(I(1), len2(VSub(light.pos, pos(hit))))
      [] light.kind = "LightShape" -> IF IsSome(info) THEN I(1) ELSE I(0)
      [] OTHER -> I(1)

\* LightSource::intensity
intensity(light, hit) == IntensityWith(light, hit, ShapeHitOf(light, reflect(hit)))

\* LightSource::dir_at
dir_at(light, hit) ==
    CASE light.kind = "PointLight" -> PointLight_dir_at(light, hit)
      [] light.kind = "ParallelLight" -> light.dir
      [] light.kind = "SkyLight" -> VNeg(hit.dir_out)
      [] light.kind = "LightShape" -> VNeg(reflect(hit).dir)

\* LightSource::color
light_color(light, hit) ==
    CASE light.kind = "SkyLight" -> SkyLight_color_from(hit.dir_out)
      [] light.kind = "LightShape" -> light.color
      [] OTHER -> light.light_color

\* a test that takes the occluder for nearer whenever there is one
NearerAlways(l1, l2) == TRUE

\* `l1 + EPS < l2` of PointLight::is_in_shadow, on the squared lengths
Nearer(l1, l2) == FLt(FAdd(l1, EPS), l2)

\* the closure of PointLight::is_in_shadow on the result h of ray.hit(world);
\* HitRecord::pos is the hit point
PointShadow(light, point, h) ==
    [ panic |-> h.panic,
      shadow |-> /\ ~h.panic
                 /\ IsSome(h.rec)
                 /\ Nearer(len2(VSub(point, h.rec[1].info.hit_point)),
                           len2(VSub(point, light.pos))) ]

\* is_in_shadow of ParallelLight, of SkyLight and of the trait: any hit
AnyHitShadow(h) == [panic |-> h.panic, shadow |-> ~h.panic /\ IsSome(h.rec)]

\* LightShape::is_in_shadow on ha = r.hit(world) and hb = shape.hit_info(r)
ShapeShadow(ha, hb) ==
    [ panic |-> ha.panic,
      shadow |-> /\ ~ha.panic
                 /\ IsSome(ha.rec)
                 /\ IsSome(hb)
                 /\ FLt(ha.rec[1].info.distance, hb[1].distance) ]

\* the ray is_in_shadow sends into the world
ShadowRay(light, hit) ==
    CASE light.kind = "PointLight" -> PointLight_shadow_ray(light, hit)
      [] light.kind = "ParallelLight" -> Ray_new(pos(hit), VNeg(light.dir))
      [] light.kind = "SkyLight" -> Default_shadow_ray(hit)
      [] light.kind = "LightShape" -> reflect(hit)

\* LightSource::is_in_shadow on h = ray.hit(world) of its ray and on
\* info = self.shape.hit_info(&hit.reflect())
ShadowWith(light, hit, info, h) ==
    CASE light.kind = "PointLight" -> PointShadow(light, pos(hit), h)
      [] light.kind = "ParallelLight" -> AnyHitShadow(h)
      [] light.kind = "SkyLight" -> AnyHitShadow(h)
      [] light.kind = "LightShape" -> ShapeShadow(h, info)

\* LightSource::is_in_shadow: [panic, shadow]; ts are the draws of Ray::hit
is_in_shadow(light, hit, objects, ts) ==
    ShadowWith(light, hit, ShapeHitOf(light, reflect(hit)),
               Ray_hit(ShadowRay(light, hit), objects, ts))

(***************************************************************************)
(* Materials (material/basic.rs, material/compose.rs)                      *)
(***************************************************************************)
\* Specular::new(albedo)
Specular(albedo) == [kind |-> "Specular", albedo |-> albedo]

Transparent(opacity, ior, color) ==
    [kind |-> "Transparent", opacity |-> opacity, ior |-> ior, color |-> color]

Metal(fuzz, albedo, color) ==
    [ kind |-> "Metal", albedo |-> albedo, color |-> color,
      fuzz |-> IF FGt(fuzz, I(1)) THEN I(1) ELSE fuzz ]

\* Metal::new(fuzz, albedo)
Metal_new(fuzz, albedo) == Metal(fuzz, albedo, V(1, 1, 1))

\* Metal::with_fuzz: `self.fuzz = fuzz`
Metal_with_fuzz(m, fuzz) == [m EXCEPT !.fuzz = fuzz]

\* Metal::with_albedo
Metal_with_albedo(m, albedo) == [m EXCEPT !.albedo = albedo]

\* Metal::with_color
Metal_with_color(m, color) == [m EXCEPT !.color = color]

\* Dielectric::new(ior): s = Specular::new(1.), r = Transparent::new(0., ior)
Dielectric(ior) ==
    [ kind |-> "Dielectric", s |-> Specular(I(1)),
      r |-> Transparent(I(0), ior, V(1, 1, 1)) ]

LambertianModel(albedo, color) ==
    [kind |-> "LambertianModel", albedo |-> albedo, color |-> color]

\* PhongModel::new().with_shininess(..).with_diffuse(..).with_color(..)
PhongModel(shininess, diffuse, color) ==
    [kind |-> "PhongModel", shininess |-> shininess, diffuse |-> diffuse, color |-> color]

\* f64::powf for an exponent that is a natural number
RECURSIVE powf(_, _)
powf(x, n) == IF n = 0 THEN I(1) ELSE FMul(x, powf(x, n - 1))

\* the macros min! and max! on two values
min2(a, b) == IF FLt(a, b) THEN a ELSE b

max2(a, b) == IF FGt(a, b) THEN a ELSE b

\* the specular illumination si of PhongModel::render
PhongSpecular(m, hit, dir) ==
    max2(min2(FMul(I(1), powf(dot(hit.dir_out, VNeg(dir)), m.shininess)), I(1)), I(0))

\* the diffuse illumination di
PhongDiffuse(hit, dir) == max2(dot(hit.norm, VNeg(dir)), I(0))

\* the ambient illumination ai
PhongAmbient == Q(1, 10)

\* a shadow that leaves every term in place
PhongTotalLit(si, di, li, shadow) ==
    VScale(li, FAdd(FAdd(FMul(si, Q(1, 2)), FMul(di, Q(1, 2))), PhongAmbient))

\* `if info.is_in_shadow() { ai * li } else { (si * 0.5 + di * 0.5 + ai) * li }`
PhongTotal(si, di, li, shadow) ==
    IF shadow THEN VScale(li, PhongAmbient)
    ELSE VScale(li, FAdd(FAdd(FMul(si, Q(1, 2)), FMul(di, Q(1, 2))), PhongAmbient))

\* the rest of the closure once the light has not claimed the reflected
\* ray: dir is info.dir(), li is info.intensity() * info.color(), sh the
\* result of info.is_in_shadow()
PhongShaded(m, hit, dir, li, sh) ==
    [ panic |-> sh.panic,
      color |-> PhongTotal(PhongSpecular(m, hit, dir), PhongDiffuse(hit, dir), li,
                           sh.shadow) ]

\* the closure of PhongModel::render on one light: lk is what the light
\* answered to looked(&hit.reflect(), world), info the hit of the reflected
\* ray on the shape of a LightShape, h the result of Ray::hit on the shadow
\* ray, which is only sent when the light has not claimed the reflected ray
PhongLooked(m, hit, light, info, lk, h) ==
    IF lk.panic THEN [panic |-> TRUE, color |-> V(0, 0, 0)]
    ELSE IF IsSome(lk.color) THEN [panic |-> FALSE, color |-> lk.color[1]]
    ELSE PhongShaded(m, hit, dir_at(light, hit),
                     VScale(light_color(light, hit), IntensityWith(light, hit, info)),
                     ShadowWith(light, hit, info, h))

PhongOnShape(m, hit, light, objects, d, info) ==
    PhongLooked(m, hit, light, info,
                LookedWith(light, reflect(hit), info,
                           Ray_hit(reflect(hit), objects, d.look)),
                Ray_hit(ShadowRay(light, hit), objects, d.shadow))

\* the contribution of one light; d.look and d.shadow are the draws of its
\* two calls of Ray::hit
PhongLight(m, hit, light, objects, d) ==
    PhongOnShape(m, hit, light, objects, d, ShapeHitOf(light, reflect(hit)))

\* the contributions of the lights, in the order of world.lights
PhongTerms(m, hit, lights, objects, d) ==
    [i \in 1..Len(lights) |-> PhongLight(m, hit, lights[i], objects, d[i])]

\* `.sum::<Vec3>()` of the contributions, then `kd * c * self.color`
PhongSum(m, terms) ==
    [ panic |-> \E i \in 1..Len(terms) : terms[i].panic,
      color |-> VMul(VScale(Vec3_sum([i \in 1..Len(terms) |-> terms[i].color]),
                            m.diffuse), m.color) ]

\* PhongModel::render: [panic, color]
PhongModel_render(m, hit, lights, objects, d) ==
    PhongSum(m, PhongTerms(m, hit, lights, objects, d))

\* another generator, with the height not scaled by cos phi
gen_point_tall(radius, a) ==
    << FMul(FMul(radius, a.sphi), a.cth),
       FMul(FMul(radius, a.sphi), a.sth),
       radius >>

\* gen_point_in_sphere with the drawn angles: a = [sphi, cphi, sth, cth],
\* the sines and cosines of phi and theta
gen_point_in_sphere(radius, a) ==
    << FMul(FMul(radius, a.sphi), a.cth),
       FMul(FMul(radius, a.sphi), a.sth),
       FMul(radius, a.cphi) >>

\* the ratios of the two directions exchanged
TransparentRatioSwapped(m, hit) == IF hit.outward THEN FDiv(I(1), m.ior) ELSE m.ior

\* the refraction ratio Transparent::scatter passes to refract
TransparentRatio(m, hit) == IF hit.outward THEN m.ior ELSE FDiv(I(1), m.ior)

\* a total reflection that sends no ray on
RefractedOrNothing(refracted, hit) ==
    IF IsSome(refracted) THEN <<refracted[1]>> ELSE <<>>

\* `hit.refract(n).map(|ray| vec![ray]).unwrap_or(vec![hit.reflect()])`
RefractedOrReflected(refracted, hit) ==
    IF IsSome(refracted) THEN <<refracted[1]>> ELSE <<reflect(hit)>>

\* Transparent::scatter
Transparent_scatter(m, hit) ==
    RefractedOrReflected(refract(hit, TransparentRatio(m, hit)), hit)

\* the reflected ray r with its direction moved by the point p and normalised
Fuzzed(r, p) == Ray(r.pos, unit(VAdd(r.dir, p)))

\* a Phong surface that sends the reflected ray on
PhongScatterReflected(hit) == <<reflect(hit)>>

\* PhongModel::scatter: Vec::new()
PhongModel_scatter(hit) == <<>>

\* Specular::scatter, the scatter of a Material that defines none: the
\* reflected ray
Specular_scatter(hit) == <<reflect(hit)>>

\* Dielectric::scatter with the draw u of rng.gen_range(0., 1.)
Dielectric_scatter(m, hit, u) ==
    IF FLt(u, reflect_prob(hit, m.r.ior))
    THEN Specular_scatter(hit)
    ELSE Transparent_scatter(m.r, hit)

\* Material::scatter; a are the angles drawn by gen_point_in_sphere and the
\* draw a.u of Dielectric::scatter
scatter(m, hit, a) ==
    CASE m.kind = "Transparent" -> Transparent_scatter(m, hit)
      [] m.kind = "Specular" -> Specular_scatter(hit)
      [] m.kind = "Dielectric" -> Dielectric_scatter(m, hit, a.u)
      [] m.kind = "PhongModel" -> PhongModel_scatter(hit)
      [] m.kind = "Metal" -> <<Fuzzed(reflect(hit), gen_point_in_sphere(m.fuzz, a))>>
      [] m.kind = "LambertianModel" ->
           <<Fuzzed(reflect(hit), gen_point_in_sphere(I(1), a))>>

\* Material::render on the traced colors
render(m, hit, traced) ==
    CASE m.kind = "Transparent" ->
           VMul(VScale(m.color, FSub(I(1), m.opacity)), traced[1])
      [] m.kind = "Specular" -> VScale(traced[1], m.albedo)
      [] m.kind = "Dielectric" ->
           VMul(VScale(m.r.color, FSub(I(1), m.r.opacity)), traced[1])
      [] m.kind = "Metal" -> VMul(VScale(traced[1], m.albedo), m.color)
      [] m.kind = "LambertianModel" -> VMul(m.color, VScale(traced[1], m.albedo))

(***************************************************************************)
(* The inputs of the model.  The scenes lie on the z axis, where every     *)
(* square root the code takes is exact.                                    *)
(***************************************************************************)
MaxObjs == 2

MaxLights == 1

MaxDepth == 2

White == V(1, 1, 1)

Black == V(0, 0, 0)

Zero3 == V(0, 0, 0)

ObjCatalog ==
    { Object(Sphere(V(0, 0, 0), I(1)), LambertianModel(Q(1, 2), White), Zero3),
      Object(Sphere(V(0, 0, 4), I(1)), LambertianModel(I(1), <<Q(1, 2), Q(1, 2), I(1)>>), Zero3),
      Object(Sphere(V(0, 0, 4), I(1)), Transparent(I(0), Q(3, 2), White), V(0, 0, 1)),
      Object(Cube(V(0, 0, -4), V(1, 0, 0), V(0, 1, 0), I(2)), Metal(I(0), Q(1, 2), White), Zero3),
      Object(Triangle(V(-1, -1, 3), V(1, -1, 3), V(0, 1, 3)), Metal(I(1), I(1), White), Zero3) }

LightCatalog ==
    { SkyLight,
      PointLight(V(0, 0, 7)),
      LightShape(Square_new(V(0, 0, 9), V(1, 0, 0), V(0, 1, 0), I(2))) }

\* the primary rays: up and down the axis, and one of direction zero, which
\* Ray::new normalises to NaN
PrimaryRays ==
    { Ray_new(V(0, 0, 2), V(0, 0, 1)),
      Ray_new(V(0, 0, 2), V(0, 0, -1)),
      Ray_new(V(0, 0, -2), V(0, 0, -1)),
      Ray_new(V(0, 0, 2), V(0, 0, 0)) }

\* the draws of rng.gen() in moving_delta
MovingDraws == {I(0), Q(1, 2)}


(***************************************************************************)
(* World and World::trace (object.rs)                                      *)
(*                                                                         *)
(* The recursion of trace is the stack of its frames.  A frame holds the   *)
(* locals of one call: ray, depth, the loop over the lights (li,           *)
(* see_light, color), the hit, the scattered rays and the colors traced so *)
(* far.  Three fields record history for the properties: consulted counts  *)
(* the calls of looked, Ray::hit, scatter and render the frame has made,   *)
(* calls lists the recursive calls that returned to it, each with the ray  *)
(* and depth the callee ran with, and looked lists what the lights         *)
(* answered.                                                               *)
(***************************************************************************)
VARIABLES
    objects,    \* World.objects
    lights,     \* World.lights
    phase,      \* "build", "trace", "done", or "panic"
    root,       \* the arguments of the outermost trace call
    stack,      \* the frames of the nested trace calls, innermost last
    result,     \* the Option<Color> the outermost call returned
    lastRet,    \* the frame that returned last, with its value
    call,       \* GeomSpec: the function applied and its arguments
    ret,        \* GeomSpec: the value the function returned
    rng,        \* the values thread_rng() has handed out, one entry per step
    twin,       \* TwinSpec: the run (1 or 2), the steps of run 1, the position in them
    emit,       \* Camera::emit_rays: its arguments, loop counters and rays
    raw,        \* scene.rs: the accumulator Arc<Mutex<Vec<Color>>>
    pool        \* scene.rs: the ThreadPool, its queue of jobs and its workers

trace_vars == <<objects, lights, phase, root, stack, result, lastRet>>

geom_vars == <<call, ret>>

twin_vars == <<rng, twin>>

render_vars == <<emit, raw, pool>>

vars == <<trace_vars, geom_vars, twin_vars, render_vars>>

\* the draws of rng.gen_range(0., 1.) in Dielectric::scatter.  Only a
\* Dielectric reads the draw: in a world without one, one value stands for
\* all of them
CoinDraws ==
    IF \E i \in 1..Len(objects) : objects[i].material.kind = "Dielectric"
    THEN {I(0), Q(1, 2)}
    ELSE {I(0)}

\* the draws of one call of scatter: those of gen_point_in_sphere that stay
\* on the axis (phi = 0), and the draw u of Dielectric::scatter
AngleDraws ==
    { [sphi |-> I(0), cphi |-> I(1), sth |-> I(0), cth |-> I(1), u |-> u] :
         u \in CoinDraws }

Frame(ray, depth) ==
    [ ray |-> ray, depth |-> depth, pc |-> "enter",
      li |-> 1, see_light |-> FALSE, color |-> Black,
      hit |-> None, rays |-> <<>>, traced |-> <<>>,
      consulted |-> 0, calls |-> <<>>, looked |-> <<>> ]

Top == stack[Len(stack)]

\* no second run is made: the draws are not recorded
NoTwin ==
    /\ rng = <<>>
    /\ twin = [run |-> 0, steps |-> <<>>, at |-> 0]

\* no camera has emitted rays and no pool renders
NoRender ==
    /\ emit = None
    /\ raw = <<>>
    /\ pool = None

\* what a step of trace leaves behind: the frames, and the value once returned
Snapshot == [stack |-> stack, phase |-> phase, result |-> result]

\* a generator that ignores its state
ReplayedAny(d, log, at) == TRUE

\* thread_rng() in a run started from the random state of an earlier run:
\* the value d it hands out at a step is the one handed out there before
Replayed(d, log, at) == at < Len(log) /\ d = log[at + 1]

\* the value d (None when the step draws nothing) is one thread_rng() can
\* hand out at this step
Seeded(d) == twin.run = 2 => Replayed(d, rng, twin.at)

\* the step has drawn d: the first run records it and the state it reached,
\* the second run moves on in the record
Logged(d) ==
    CASE twin.run = 0 -> UNCHANGED twin_vars
      [] twin.run = 1 ->
            /\ rng' = Append(rng, d)
            /\ twin' = [twin EXCEPT !.steps = Append(@, Snapshot')]
      [] twin.run = 2 ->
            /\ rng' = rng
            /\ twin' = [twin EXCEPT !.at = @ + 1]

\* World::empty
Init ==
    /\ objects = <<>>
    /\ lights = <<>>
    /\ phase = "build"
    /\ root = None
    /\ stack = <<>>
    /\ result = None
    /\ lastRet = None
    /\ call = None
    /\ ret = None
    /\ NoTwin
    /\ NoRender

\* World::add_obj
AddObj ==
    /\ phase = "build"
    /\ Len(objects) < MaxObjs
    /\ \E o \in ObjCatalog : objects' = Append(objects, o)
    /\ UNCHANGED <<lights, phase, root, stack, result, lastRet, call, ret, twin_vars, render_vars>>

\* World::add_light
AddLight ==
    /\ phase = "build"
    /\ Len(lights) < MaxLights
    /\ \E l \in LightCatalog : lights' = Append(lights, l)
    /\ UNCHANGED <<objects, phase, root, stack, result, lastRet, call, ret, twin_vars, render_vars>>

\* the call world.trace(&ray, depth) of the render loop
StartTrace ==
    /\ phase = "build"
    /\ \E ray \in PrimaryRays, depth \in 0..MaxDepth :
          /\ root' = Some([ray |-> ray, depth |-> depth])
          /\ stack' = <<Frame(ray, depth)>>
    /\ phase' = "trace"
    /\ UNCHANGED <<objects, lights, result, lastRet, call, ret, twin_vars, render_vars>>

\* a return of the innermost call with value v; kind names the return taken
Return(v, kind) ==
    LET n == Len(stack)
        f == Top
    IN  /\ lastRet' = Some([frame |-> f, value |-> v, kind |-> kind])
        /\ IF n = 1
           THEN /\ stack' = <<>>
                /\ result' = Some(v)
                /\ phase' = "done"
           ELSE /\ stack' = [ SubSeq(stack, 1, n - 1) EXCEPT
                                ![n - 1].traced = Append(@, v),
                                ![n - 1].calls =
                                    Append(@, [ray |-> f.ray, depth |-> f.depth, value |-> v]) ]
                /\ UNCHANGED <<result, phase, call, ret, render_vars>>
        /\ UNCHANGED <<objects, lights, root, call, ret, render_vars>>

\* a panic unwinds the whole render: no call returns
Panic ==
    /\ phase' = "panic"
    /\ UNCHANGED <<objects, lights, root, stack, result, lastRet, call, ret, render_vars>>

\* the frame f replaces the innermost one
Step(f) ==
    /\ stack' = [stack EXCEPT ![Len(stack)] = f]
    /\ UNCHANGED <<objects, lights, phase, root, result, lastRet, call, ret, render_vars>>

\* a cutoff that never fires
EnergyCutoffNever(depth) == depth < 0

\* `if depth == 0`
EnergyCutoff(depth) == depth = 0

\* `if depth == 0 { return Color::new(0., 0., 0.); }`
TraceEnter ==
    /\ phase = "trace"
    /\ Top.pc = "enter"
    /\ Seeded(None)
    /\ IF EnergyCutoff(Top.depth)
       THEN Return(Black, "cutoff")
       ELSE Step([Top EXCEPT !.pc = "lights"])
    /\ Logged(None)

\* a flag that only remembers the last light
SeeLightLast(see_light, claim) == IsSome(claim)

\* `see_light = true` inside `if let Some(c) = light.looked(ray, self)`
SeeLight(see_light, claim) == see_light \/ IsSome(claim)

\* one round of `for light in &self.lights`
LookLight ==
    /\ phase = "trace"
    /\ Top.pc = "lights"
    /\ Top.li <= Len(lights)
    /\ \E ts \in [1..Len(objects) -> MovingDraws] :
          /\ Seeded(Some(ts))
          /\ \E r \in {looked(lights[Top.li], Top.ray, objects, ts)} :
                IF r.panic THEN Panic
                ELSE Step([Top EXCEPT
                             !.li = @ + 1,
                             !.consulted = @ + 1,
                             !.see_light = SeeLight(@, r.color),
                             !.looked = Append(@, r.color),
                             !.color = IF IsSome(r.color) THEN VAdd(@, r.color[1]) ELSE @])
          /\ Logged(Some(ts))

\* `if see_light { return color; }`
LightsDone ==
    /\ phase = "trace"
    /\ Top.pc = "lights"
    /\ Top.li > Len(lights)
    /\ Seeded(None)
    /\ IF Top.see_light
       THEN Return(Top.color, "light")
       ELSE Step([Top EXCEPT !.pc = "hit"])
    /\ Logged(None)

\* a miss that returns white
MissColorWhite == White

\* `.unwrap_or((0., 0., 0.).into())`: the color of a ray that hits nothing
MissColor == Black

\* `ray.hit(self)`, and on a hit `m.scatter(info)`; no hit returns MissColor
HitScatter ==
    /\ phase = "trace"
    /\ Top.pc = "hit"
    /\ \E ts \in [1..Len(objects) -> MovingDraws], a \in AngleDraws :
          /\ Seeded(Some(<<ts, a>>))
          /\ \E h \in {Ray_hit(Top.ray, objects, ts)} :
                IF h.panic THEN Panic
                ELSE IF IsNone(h.rec)
                THEN Return(MissColor, "miss")
                ELSE \E rays \in {scatter(h.rec[1].material, h.rec[1].info, a)} :
                        Step([Top EXCEPT
                                !.pc = "trace",
                                !.consulted = @ + 2,
                                !.hit = h.rec,
                                !.rays = rays])
          /\ Logged(Some(<<ts, a>>))

\* a recursive call at the depth of its caller
CalleeDepthSame(d) == d

\* the depth of a recursive call made at depth d
CalleeDepth(d) == d - 1

\* the index in the scattered rays of the next ray to trace, when k colors
\* have been collected
NextRay(k) == k + 1

\* `.map(|ray| self.trace(&ray, depth - 1))`: the next recursive call
TraceCall ==
    /\ phase = "trace"
    /\ Top.pc = "trace"
    /\ Len(Top.traced) < Len(Top.rays)
    /\ Seeded(None)
    /\ stack' = Append(stack, Frame(Top.rays[NextRay(Len(Top.traced))],
                                    CalleeDepth(Top.depth)))
    /\ UNCHANGED <<objects, lights, phase, root, result, lastRet, call, ret, render_vars>>
    /\ Logged(None)

\* the draws of one call of Ray::hit in a render.  The draw of an object
\* that does not move is multiplied by its moving_to of zero: one value
\* stands for all of them
HitDraws ==
    { ts \in [1..Len(objects) -> MovingDraws] :
         \A i \in 1..Len(objects) : objects[i].moving_to = Zero3 => ts[i] = I(0) }

\* the draws of Ray::hit in the render of m: PhongModel makes two calls of
\* Ray::hit for every light, the other materials none
RenderDraws(m) ==
    IF m.kind = "PhongModel"
    THEN { Some(d) : d \in [1..Len(lights) -> [look : HitDraws, shadow : HitDraws]] }
    ELSE {None}

\* dyn Material: render on the world; [panic, color]
Material_render(m, hit, traced, d) ==
    IF m.kind = "PhongModel"
    THEN PhongModel_render(m, hit, lights, objects, d[1])
    ELSE IF traced = <<>>
    THEN [panic |-> TRUE, color |-> Black]
    ELSE [panic |-> FALSE, color |-> render(m, hit, traced)]

\* `m.render(info, self, &traced)`, the value of the call
Render ==
    /\ phase = "trace"
    /\ Top.pc = "trace"
    /\ Len(Top.traced) = Len(Top.rays)
    /\ \E d \in RenderDraws(Top.hit[1].material) :
          /\ Seeded(d)
          /\ \E r \in {Material_render(Top.hit[1].material, Top.hit[1].info,
                                        Top.traced, d)} :
                IF r.panic THEN Panic ELSE Return(r.color, "shade")
          /\ Logged(d)

Next ==
    \/ AddObj
    \/ AddLight
    \/ StartTrace
    \/ TraceEnter
    \/ LookLight
    \/ LightsDone
    \/ HitScatter
    \/ TraceCall
    \/ Render

Spec == Init /\ [][Next]_vars

(***************************************************************************)
(* World::trace: the cutoff, the recursion and the value                   *)
(***************************************************************************)
Frames == {stack[i] : i \in 1..Len(stack)}

\* the trace call that returned last
Returned == lastRet[1]

\* C1: trace(ray, 0) returns black without consulting any light, object or
\* material: a call of depth 0 never leaves its entry nor calls looked,
\* Ray::hit, scatter or render, and the value it returns is (0, 0, 0).
C1_CutoffIsBlack ==
    /\ \A f \in Frames : f.depth = 0 => f.pc = "enter" /\ f.consulted = 0
    /\ IsSome(lastRet) /\ Returned.frame.depth = 0 =>
          /\ Returned.value = V(0, 0, 0)
          /\ Returned.frame.consulted = 0
          /\ Returned.frame.calls = <<>>

\* a call of depth 0 has returned in a world that has a light and an object
C1_Witness ==
    /\ IsSome(lastRet)
    /\ Returned.frame.depth = 0
    /\ Len(objects) > 0
    /\ Len(lights) > 0

\* the nesting of the trace calls: the i-th nested call runs at the initial
\* depth less i - 1, every call a frame has made ran one below the frame's
\* depth, and a frame has made no more calls than it has scattered rays
C2_Nesting ==
    IsSome(root) =>
       /\ Len(stack) <= root[1].depth + 1
       /\ \A i \in 1..Len(stack) :
             /\ stack[i].depth = root[1].depth - (i - 1)
             /\ Len(stack[i].calls) = Len(stack[i].traced)
             /\ Len(stack[i].calls) <= Len(stack[i].rays)
             /\ \A k \in 1..Len(stack[i].calls) :
                   stack[i].calls[k].depth = stack[i].depth - 1

\* the most rays a scatter of the materials returns
MaxScatter == 1

\* a bound on the steps of a trace call of depth d: the entry, a look at
\* each light, the test of see_light, the hit with its scatter, a call with
\* its steps for each scattered ray, and the render
RECURSIVE Cost(_)
Cost(d) ==
    IF d = 0 THEN 1
    ELSE 4 + Len(lights) + MaxScatter * (1 + Cost(d - 1))

\* a bound on the steps the frame f has left, its running callee not
\* counted; waiting says that f has a running callee
Remaining(f, waiting) ==
    CASE f.pc = "enter"  -> Cost(f.depth)
      [] f.pc = "lights" -> Cost(f.depth) - f.li
      [] f.pc = "hit"    -> Cost(f.depth) - Len(lights) - 2
      [] f.pc = "trace"  ->
           1 + (MaxScatter - Len(f.traced) - (IF waiting THEN 1 ELSE 0))
               * (1 + Cost(f.depth - 1))

RECURSIVE RemainingFrom(_)
RemainingFrom(i) ==
    IF i > Len(stack) THEN 0
    ELSE Remaining(stack[i], i < Len(stack)) + RemainingFrom(i + 1)

\* a bound on the steps the outermost call has left: zero when it has
\* returned or a panic has ended it
Variant == IF phase = "trace" THEN RemainingFrom(1) ELSE 0

\* C2: World::trace always terminates: every recursive call is made with
\* depth - 1, so the nesting of the trace calls never exceeds the initial
\* depth, and a call makes no call of trace but one for each scattered ray.
\* Every step of a trace call lowers Variant, a natural number: the call
\* of depth d ends within Cost(d) steps.
C2_TraceTerminates ==
    /\ [](C2_Nesting /\ Variant >= 0)
    /\ [][phase = "trace" => Variant' < Variant]_vars

\* the recursion has gone as deep as the initial depth allows
C2_Witness ==
    /\ IsSome(root)
    /\ root[1].depth = MaxDepth
    /\ Len(stack) = MaxDepth + 1

(***************************************************************************)
(* Ray::hit in World::trace                                                *)
(***************************************************************************)
\* the draws of moving_delta for the objects of the world
Draws == [1..Len(objects) -> MovingDraws]

\* h is None exactly when hits is empty, and otherwise a record no farther
\* than any of hits
NearestOf(h, hits) ==
    /\ ~h.panic
    /\ IsNone(h.rec) <=> hits = <<>>
    /\ IsSome(h.rec) =>
          \A k \in 1..Len(hits) : FLe(h.rec[1].info.distance, hits[k].info.distance)

\* C3: Ray::hit returns None exactly when no object's hit_by returns a hit,
\* and otherwise a record whose distance is less than or equal to the
\* distance of every hit the objects return for the ray: stated of every
\* ray a trace call is about to hit the world with.
C3_RayHitNearest ==
    \A f \in Frames : f.pc = "hit" =>
       \A ts \in Draws :
          NearestOf(Ray_hit(f.ray, objects, ts), HitsOf(f.ray, objects, ts))

\* C4: the nearest-hit reduction never panics: on incomparable distances
\* Ray::hit still returns a result, so no trace call ends in a panic.
C4_NeverPanics == phase # "panic"

\* C5: at depth >= 1, when no light claims the ray, the value of a trace
\* call is black when Ray::hit finds no hit, and otherwise render(hit,
\* world, colors), where colors has the length of scatter(hit) and
\* colors[i] is the value of the call trace(scatter(hit)[i], depth - 1).
C5_TraceValue ==
    IsSome(lastRet) /\ Returned.frame.depth >= 1 /\ ~Returned.frame.see_light =>
       IF IsSome(Returned.frame.hit)
       THEN /\ Returned.kind = "shade"
            /\ \E ts \in Draws :
                  Ray_hit(Returned.frame.ray, objects, ts).rec = Returned.frame.hit
            /\ \E a \in AngleDraws :
                  Returned.frame.rays =
                     scatter(Returned.frame.hit[1].material, Returned.frame.hit[1].info, a)
            /\ Len(Returned.frame.traced) = Len(Returned.frame.rays)
            /\ Len(Returned.frame.calls) = Len(Returned.frame.rays)
            /\ \A i \in 1..Len(Returned.frame.rays) :
                  /\ Returned.frame.calls[i].ray = Returned.frame.rays[i]
                  /\ Returned.frame.calls[i].depth = Returned.frame.depth - 1
                  /\ Returned.frame.traced[i] = Returned.frame.calls[i].value
            /\ Returned.value =
                  render(Returned.frame.hit[1].material, Returned.frame.hit[1].info,
                         Returned.frame.traced)
       ELSE /\ Returned.kind = "miss"
            /\ \E ts \in Draws : IsNone(Ray_hit(Returned.frame.ray, objects, ts).rec)
            /\ Returned.frame.calls = <<>>
            /\ Returned.value = V(0, 0, 0)

\* a call of depth 2 has returned the render of a hit, a color that is not
\* black, computed from the value of a recursive call that missed
C5_Witness ==
    /\ IsSome(lastRet)
    /\ Returned.frame.depth = 2
    /\ Returned.kind = "shade"
    /\ Len(Returned.frame.calls) = 1
    /\ Returned.value # V(0, 0, 0)

(***************************************************************************)
(* GeomSpec: the functions of HitInfo, of the shapes and of Transparent,   *)
(* each applied to arguments drawn from a grid.  A behaviour draws a call  *)
(* and applies the function; ret is its value.                             *)
(***************************************************************************)
GridMax == 2

Coords == -GridMax..GridMax

\* the points and vectors of the grid
GridVecs == {V(x, y, z) : x \in Coords, y \in Coords, z \in Coords}

\* those whose length is rational and not zero
UnitGrid == {v \in GridVecs : ExactUnit(v)}

\* a direction of length 1059 that grazes the plane z = 0 from above: its
\* cosine with the normal (0, 0, 1) is -1/1059, between -EPS and 0
GrazingDir == V(46, 1058, -1)

AxisDirs ==
    {V(1, 0, 0), V(-1, 0, 0), V(0, 1, 0), V(0, -1, 0), V(0, 0, 1), V(0, 0, -1)}

\* the triangle of test_triangle
TestTri == Triangle(V(0, -1, 0), V(1, 1, 0), V(-1, 1, 0))

ShapeCatalog ==
    { Sphere(V(0, 0, 0), I(1)),
      Sphere(V(0, 0, 0), I(-1)),
      TestTri,
      Square_new(V(0, 0, 0), V(1, 0, 0), V(0, 1, 0), I(2)),
      Square_new(V(0, 0, 0), V(1, 0, 0), V(0, 1, 0), I(4)),
      Square_from_points(V(-2, -2, 0), V(2, -2, 0), V(2, 2, 0), V(-2, 2, 0)),
      Cube(V(0, 0, 0), V(1, 0, 0), V(0, 1, 0), I(2)),
      Cube(V(0, 0, 1), V(2, 0, 0), V(0, 0, 3), I(2)) }

\* the origins of the rays: the grid points with y = 0 or y = 1
RayOrigins == {v \in GridVecs : v[2] \in {I(0), I(1)}}

\* the rays, built by Ray::new; the direction zero gives a NaN ray
GridRays == {Ray_new(o, d) : o \in RayOrigins, d \in AxisDirs \cup {V(0, 0, 0)}}

\* the ray along GrazingDir that meets TestTri at (0, 0, 0)
GrazingRay == Ray_new(V(-46, -1058, 1), GrazingDir)

\* the arguments of the two constructors of Square: a center, two unit
\* sides and a length for Square::new, four corners in anti-clockwise order
\* for Square::from_points
SquareBuilds ==
    { <<"new", c, xy[1], xy[2], length>> :
         c \in {V(0, 0, 0), V(0, 0, 1)},
         xy \in {<<V(1, 0, 0), V(0, 1, 0)>>, <<V(0, 1, 0), V(0, 0, 1)>>},
         length \in {I(2), I(4)} }
    \cup
    { <<"from_points", V(-k, -k, z), V(k, -k, z), V(k, k, z), V(-k, k, z)>> :
         k \in 1..2, z \in 0..1 }

\* the Square a constructor call builds
Built(b) ==
    IF b[1] = "new" THEN Square_new(b[2], b[3], b[4], b[5])
    ELSE Square_from_points(b[2], b[3], b[4], b[5])

\* the hit on the surface z = 0 of a ray that comes straight down: pos() is
\* (0, 0, EPS)
ShadowedHit == HitInfo_new(I(1), V(0, 0, 1), V(0, 0, 0), V(0, 0, -1))

\* point lights straight above the hit
LightsAbove == {PointLight(<<I(0), I(0), z>>) : z \in {Q(1001, 1000), I(3)}}

\* a triangle across the axis at the height z
Blocker(z) ==
    Object(Triangle(<<I(-1), I(-1), z>>, <<I(1), I(-1), z>>, <<I(0), I(1), z>>),
           Metal(I(0), I(1), White), Zero3)

\* the worlds between the hit and the lights: empty, or a triangle below a
\* light, just below it, at it, or above it, or two triangles
ShadowWorlds ==
    {<<>>, <<Blocker(I(2)), Blocker(Q(1, 2))>>}
    \cup {<<Blocker(z)>> : z \in {Q(1, 2), Q(2001, 2000), Q(1001, 1000), I(2), I(3), I(4)}}

\* the square root Sphere::hit_info takes of delta is exact, or not taken
\* to a real number at all
ExactRoots(r) == IsNaN(r.delta) \/ FLt(r.delta, I(0)) \/ ExactSqrt(r.delta)

ExactHit(shape, ray) ==
    shape.kind = "Sphere" => ExactRoots(SphereRoots(shape, ray))

\* the directions of the rays that meet a Transparent surface
ScatterDirs ==
    {V(0, 0, -1), V(0, 0, 1), V(3, 0, -4), V(3, 0, 4), V(4, 0, -3), V(4, 0, 3)}

\* the hits on the surface z = 0
ScatterHits == {HitInfo_new(I(1), V(0, 0, 1), V(0, 0, 0), d) : d \in ScatterDirs}

Iors == {Q(4, 3), Q(3, 4), Q(3, 2), I(1)}

Transparents == {Transparent(I(0), ior, White) : ior \in Iors}

\* the square root HitInfo::refract takes of the discriminant is exact
ExactRefract(m, hit) ==
    \/ ~FGt(Discriminant(dot(hit.dir_in, hit.norm), TransparentRatio(m, hit)), I(0))
    \/ ExactSqrt(Discriminant(dot(hit.dir_in, hit.norm), TransparentRatio(m, hit)))

\* no world and no trace call
NoTrace ==
    /\ objects = <<>>
    /\ lights = <<>>
    /\ phase = "geom"
    /\ root = None
    /\ stack = <<>>
    /\ result = None
    /\ lastRet = None
    /\ NoTwin
    /\ NoRender

GeomInit ==
    /\ NoTrace
    /\ ret = None
    /\ \/ \E norm \in UnitGrid, dir_in \in UnitGrid :
             call = <<"HitInfo::new", norm, dir_in>>
       \/ \E norm \in AxisDirs : call = <<"HitInfo::new", norm, GrazingDir>>
       \/ \E m \in Transparents, hit \in ScatterHits :
             /\ ExactRefract(m, hit)
             /\ call = <<"Transparent::scatter", m, hit>>
       \/ \E shape \in ShapeCatalog, ray \in GridRays :
             /\ ExactHit(shape, ray)
             /\ call = <<"hit_info", shape, ray>>
       \/ call = <<"hit_info", TestTri, GrazingRay>>
       \/ \E shape \in ShapeCatalog, ray \in GridRays :
             /\ ray.pos[1] = I(0) /\ ray.pos[2] = I(0)
             /\ call = <<"hit_moving", shape, ray, V(0, 0, 1)>>
       \/ \E p \in GridVecs : call = <<"contain", TestTri, p>>
       \/ \E b \in SquareBuilds : call = <<"get_corners", b>>
       \/ \E light \in LightsAbove, world \in ShadowWorlds :
             call = <<"is_in_shadow", light, ShadowedHit, world>>

Returns(v) ==
    /\ ret = None
    /\ ret' = Some(v)
    /\ UNCHANGED <<objects, lights, phase, root, stack, result, lastRet, call, twin_vars, render_vars>>

\* HitInfo::new(1., norm, (0, 0, 0), dir_in)
Apply_HitInfo_new ==
    /\ call[1] = "HitInfo::new"
    /\ Returns(HitInfo_new(I(1), call[2], V(0, 0, 0), call[3]))

\* m.scatter(hit) of a Transparent m
Apply_scatter ==
    /\ call[1] = "Transparent::scatter"
    /\ Returns(Transparent_scatter(call[2], call[3]))

\* shape.hit_info(ray)
Apply_hit_info ==
    /\ call[1] = "hit_info"
    /\ Returns(Shape_hit_info(call[2], call[3]))

\* shape.hit_moving(ray, delta)
Apply_hit_moving ==
    /\ call[1] = "hit_moving"
    /\ Returns(Shape_hit_moving(call[2], call[3], call[4]))

\* tri.contain(p)
Apply_contain ==
    /\ call[1] = "contain"
    /\ Returns(Triangle_contain(call[2], call[3]))

\* Square::new(..).get_corners() or Square::from_points(..).get_corners()
Apply_get_corners ==
    /\ call[1] = "get_corners"
    /\ Returns(Square_get_corners(Built(call[2])))

\* light.is_in_shadow(hit, world) of a PointLight, on a world whose objects
\* do not move
Apply_is_in_shadow ==
    /\ call[1] = "is_in_shadow"
    /\ Returns(is_in_shadow(call[2], call[3], call[4],
                            [i \in 1..Len(call[4]) |-> I(0)]))

GeomNext ==
    \/ Apply_is_in_shadow
    \/ Apply_get_corners
    \/ Apply_HitInfo_new
    \/ Apply_scatter
    \/ Apply_hit_info
    \/ Apply_hit_moving
    \/ Apply_contain

GeomSpec == GeomInit /\ [][GeomNext]_vars

(***************************************************************************)
(* HitInfo, the shapes and Transparent                                     *)
(***************************************************************************)
\* the call of the function named op has returned
Applied(op) == call # None /\ call[1] = op /\ IsSome(ret)

\* the value the call returned
Value == ret[1]

\* C6: for every HitInfo produced by HitInfo::new, for any raw normal and
\* any incoming direction, grazing ones included, the stored normal
\* satisfies normal.dot(dir_in) <= -EPS: it faces the incoming ray.
C6_NormalFacesRay ==
    Applied("HitInfo::new") => FLe(dot(Value.norm, Value.dir_in), FNeg(EPS))

\* C7: every HitInfo returned by the hit_info or the hit_moving of a shape
\* has a strictly positive distance: no hit at parameter 0 or behind the
\* origin of the ray.
C7_PositiveDistance ==
    (Applied("hit_info") \/ Applied("hit_moving")) /\ IsSome(Value) =>
       FGt(Value[1].distance, I(0))

\* twice the signed areas of the triangles (p, p1, p2), (p, p2, p0) and
\* (p, p0, p1), measured along the normal of tri: the barycentric
\* coordinates of p scaled by twice the area of tri
Barycentric(tri, p) ==
    << dot(cross(VSub(tri.p1, p), VSub(tri.p2, p)),
           cross(VSub(tri.p1, tri.p0), VSub(tri.p2, tri.p0))),
       dot(cross(VSub(tri.p2, p), VSub(tri.p0, p)),
           cross(VSub(tri.p1, tri.p0), VSub(tri.p2, tri.p0))),
       dot(cross(VSub(tri.p0, p), VSub(tri.p1, p)),
           cross(VSub(tri.p1, tri.p0), VSub(tri.p2, tri.p0))) >>

\* p lies in the plane of tri
InPlane(tri, p) ==
    dot(VSub(p, tri.p0), cross(VSub(tri.p1, tri.p0), VSub(tri.p2, tri.p0))) = I(0)

\* p lies in tri or on its boundary
InsideOrOnBoundary(tri, p) ==
    /\ InPlane(tri, p)
    /\ \A k \in 1..3 : FGe(Barycentric(tri, p)[k], I(0))

\* C8: Triangle::contain(p) is true exactly when p lies in the plane of the
\* triangle and its three barycentric coordinates are non-negative; a point
\* on the extension of an edge beyond a vertex is not contained.
C8_ContainIsBarycentric ==
    Applied("contain") => (Value <=> InsideOrOnBoundary(call[2], call[3]))

\* the conditions of a hit on the values p of the Moller-Trumbore test
HitConditions(p) ==
    /\ FGe(FAbs(p.a), EPS)
    /\ FLe(I(0), p.u) /\ FLe(p.u, I(1))
    /\ FGe(p.v, I(0))
    /\ FLe(FAdd(p.u, p.v), I(1))
    /\ FGt(p.t, EPS)

\* the hit of the ray at the parameter t: the hit point, a normal that
\* faces the ray, and pos()
HitAt(hit, ray, t) ==
    /\ hit.distance = t
    /\ hit.hit_point = VAdd(ray.pos, VScale(ray.dir, t))
    /\ FLt(dot(hit.norm, ray.dir), I(0))
    /\ pos(hit) = VAdd(hit.hit_point, VScale(hit.dir_out, EPS))

\* C9: Triangle::hit_info returns a hit exactly when |det| >= EPS,
\* 0 <= u <= 1, v >= 0, u + v <= 1 and t > EPS; the hit then has the hit
\* point origin + t * dir, a normal facing the ray, and pos() = hit point +
\* EPS * dir_out.
C9_TriangleHit ==
    Applied("hit_info") /\ call[2].kind = "Triangle" =>
       /\ IsSome(Value) <=> HitConditions(TriangleParams(call[2], call[3]))
       /\ IsSome(Value) =>
             HitAt(Value[1], call[3], TriangleParams(call[2], call[3]).t)

\* the ratio of C10: ior when the hit is outward, 1/ior otherwise
RatioOf(m, hit) == IF hit.outward THEN m.ior ELSE FDiv(I(1), m.ior)

\* C10: Transparent::scatter returns exactly one ray: the refracted ray
\* when refract(ratio) is Some, which it is exactly when the discriminant
\* is positive, and the reflected ray hit.reflect() otherwise; ratio is ior
\* when hit.is_to_outward() and 1/ior otherwise.
C10_ScatterOneRay ==
    Applied("Transparent::scatter") =>
       /\ Len(Value) = 1
       /\ IsSome(refract(call[3], RatioOf(call[2], call[3])))
             <=> FGt(Discriminant(dot(call[3].dir_in, call[3].norm),
                                  RatioOf(call[2], call[3])), I(0))
       /\ IF IsSome(refract(call[3], RatioOf(call[2], call[3])))
          THEN Value[1] = refract(call[3], RatioOf(call[2], call[3]))[1]
          ELSE Value[1] = reflect(call[3])

\* a scatter of an outward hit under total internal reflection has
\* returned the reflected ray
C10_Witness ==
    /\ Applied("Transparent::scatter")
    /\ call[3].outward
    /\ IsNone(refract(call[3], call[2].ior))
    /\ Value = <<reflect(call[3])>>


(***************************************************************************)
(* Camera (ray.rs)                                                         *)
(*                                                                         *)
(* tan_half_fov stands for (self.fov / 2.).tan(), a rational here.         *)
(***************************************************************************)
Camera(pos_, up, sight, sample_rate, focus_dist, aperture, tan_half_fov, aspect) ==
    [ pos |-> pos_, up |-> up, sight |-> sight, sample_rate |-> sample_rate,
      focus_dist |-> focus_dist, aperture |-> aperture,
      tan_half_fov |-> tan_half_fov, aspect |-> aspect ]

\* Camera::right: self.sight.cross(self.up).unit()
Camera_right(cam) == unit(cross(cam.sight, cam.up))

\* the second assignment of look, with the right computed from the new sight
LookUp(cam) == [cam EXCEPT !.up = unit(cross(Camera_right(cam), cam.sight))]

\* Camera::look
Camera_look(cam, point) == LookUp([cam EXCEPT !.sight = unit(VSub(point, cam.pos))])

\* Camera::new: up and sight start as (0, 0, 1), then look(to)
Camera_new(from, to) ==
    Camera_look(Camera(from, V(0, 0, 1), V(0, 0, 1), I(1), I(1), I(0), I(1), I(1)), to)

\* Camera::with_sample_rate
with_sample_rate(cam, rate) == [cam EXCEPT !.sample_rate = rate]

\* vh and vw of emit_rays
ViewH(cam) == FMul(FMul(I(2), cam.tan_half_fov), cam.focus_dist)

ViewW(cam) == FMul(ViewH(cam), cam.aspect)

\* pw and ph of emit_rays
PixelW(cam, width) == VScale(Camera_right(cam), FDiv(ViewW(cam), I(width)))

PixelH(cam, height) == VScale(cam.up, FDiv(ViewH(cam), I(height)))

\* center - vw * right / 2 + vh * up / 2 + bias, with bias = 0.5 * (pw - ph)
TopLeftOf(cam, center, pw, ph) ==
    VAdd(VAdd(VSub(center, VDivS(VScale(Camera_right(cam), ViewW(cam)), I(2))),
              VDivS(VScale(cam.up, ViewH(cam)), I(2))),
         VScale(VSub(pw, ph), Q(1, 2)))

TopLeft(cam, width, height) ==
    TopLeftOf(cam, VAdd(cam.pos, VScale(cam.sight, cam.focus_dist)),
              PixelW(cam, width), PixelH(cam, height))

\* to = top_left + (w + rw) * pw - (h + rh) * ph
EmitTo(cam, width, height, w, h, rw, rh) ==
    VSub(VAdd(TopLeft(cam, width, height),
              VScale(PixelW(cam, width), FAdd(I(w), rw))),
         VScale(PixelH(cam, height), FAdd(I(h), rh)))

\* gen_point_in_disk(radius) for the draws r and (cos theta, sin theta)
gen_point_in_disk(radius, r, cth, sth) == VScale(<<cth, sth, I(0)>>, FMul(radius, r))

\* from = self.pos + self.right() * rd.x + self.up() * rd.y
EmitFrom(cam, rd) ==
    VAdd(cam.pos, VAdd(VScale(Camera_right(cam), rd[1]), VScale(cam.up, rd[2])))

\* Ray::new(from, to - from)
EmitRay(from, to) == Ray_new(from, VSub(to, from))

(***************************************************************************)
(* Camera::emit_rays as a loop: one step per round of the `while` of a     *)
(* pixel, the pixels taken in the order of the two flat_maps (w outside,   *)
(* h inside).                                                              *)
(***************************************************************************)
MaxWidth == 2

MaxHeight == 2

MaxRate == 2

\* rng.gen_range(0., 1.): a value of [0, 1)
UnitDraws == {I(0), Q(1, 2)}

\* rng.gen_range(-b, b) with b = 0.5, for rw and rh
JitterDraws == {Q(-1, 2)}

\* the cameras of the renders: Camera::new(from, to).with_sample_rate(n)
EmitCameras ==
    { with_sample_rate(Camera_new(V(0, 0, 0), V(1, 0, 0)), I(n)) : n \in 1..MaxRate }

NoWorld ==
    /\ objects = <<>>
    /\ lights = <<>>
    /\ root = None
    /\ stack = <<>>
    /\ result = None
    /\ lastRet = None
    /\ call = None
    /\ ret = None
    /\ NoTwin

\* the pixel after (w, h): h runs inside w
PixelAfter(w, h, height) == IF h + 1 < height THEN <<w, h + 1>> ELSE <<w + 1, 0>>

\* the call camera.emit_rays(width, height)
EmitInit ==
    /\ NoWorld
    /\ phase = "emit"
    /\ raw = <<>>
    /\ pool = None
    /\ \E cam \in EmitCameras, width \in 1..MaxWidth, height \in 1..MaxHeight :
          emit = [ camera |-> cam, width |-> width, height |-> height,
                   w |-> 0, h |-> 0, sample |-> cam.sample_rate,
                   rays |-> <<>>, pc |-> "while" ]

\* a round of `while rng.gen_range(0., 1.) <= sample`: push a ray, sample -= 1
EmitSample ==
    /\ phase = "emit"
    /\ emit.pc = "while"
    /\ \E r \in UnitDraws, rw \in JitterDraws, rh \in JitterDraws :
          /\ FLe(r, emit.sample)
          /\ \E ray \in { EmitRay(EmitFrom(emit.camera,
                                           gen_point_in_disk(FDiv(emit.camera.aperture, I(2)),
                                                             r, I(1), I(0))),
                                  EmitTo(emit.camera, emit.width, emit.height,
                                         emit.w, emit.h, rw, rh)) } :
                emit' = [emit EXCEPT
                           !.rays = Append(@, <<emit.w, emit.h, ray>>),
                           !.sample = FSub(@, I(1))]
    /\ UNCHANGED <<trace_vars, geom_vars, twin_vars, raw, pool>>

\* the `while` ends: the rays of the pixel are yielded, the next pixel starts
EmitPixel ==
    /\ phase = "emit"
    /\ emit.pc = "while"
    /\ \E r \in UnitDraws :
          /\ ~FLe(r, emit.sample)
          /\ \E nx \in {PixelAfter(emit.w, emit.h, emit.height)} :
                emit' = [emit EXCEPT
                           !.w = nx[1], !.h = nx[2],
                           !.sample = emit.camera.sample_rate,
                           !.pc = IF nx[1] < emit.width THEN "while" ELSE "collect"]
    /\ UNCHANGED <<trace_vars, geom_vars, twin_vars, raw, pool>>

EmitNext ==
    \/ EmitSample
    \/ EmitPixel

EmitSpec == EmitInit /\ [][EmitNext]_vars

\* the entries emit_rays has yielded for the pixel (w, h)
EntriesOf(w, h) ==
    {i \in 1..Len(emit.rays) : emit.rays[i][1] = w /\ emit.rays[i][2] = h}

\* C11: emit_rays with an integer sample_rate n >= 1 yields exactly n entries
\* for every pixel and width * height * n in total, whatever the random
\* draws, and every entry (w, h, ray) has 0 <= w < width and 0 <= h < height.
C11_ExactlyNPerPixel ==
    emit # None /\ emit.pc = "collect" =>
        /\ \A w \in 0..(emit.width - 1), h \in 0..(emit.height - 1) :
              I(Cardinality(EntriesOf(w, h))) = emit.camera.sample_rate
        /\ I(Len(emit.rays)) = FMul(I(emit.width * emit.height), emit.camera.sample_rate)
        /\ \A i \in 1..Len(emit.rays) :
              /\ emit.rays[i][1] \in 0..(emit.width - 1)
              /\ emit.rays[i][2] \in 0..(emit.height - 1)


(***************************************************************************)
(* The render of examples/scene.rs: the rays of emit_rays are cut into     *)
(* chunks, every chunk is a job of the ThreadPool, and a job traces its    *)
(* rays one by one and adds each color to the pixel of the ray under the   *)
(* Mutex.  world.trace is the call the trace machine above models: it      *)
(* returns a color, or panics (in Ray::hit); here its outcome is drawn.    *)
(* A job that panics is dropped with the rays it has not traced yet, and   *)
(* the pool replaces the worker.                                           *)
(***************************************************************************)
WIDTH == 2

HEIGHT == 1

\* the 128 of chunks(128, ...)
ChunkSize == 2

\* num_cpus::get()
NumWorkers == 2

\* the most rays a pixel receives in the vectors below
MaxPerPixel == 2

\* the colors world.trace returns
TraceColors == {V(1, 0, 0), V(0, 1, 0)}

\* the outcomes of world.trace(&ray, TRACE_DEPTH)
TraceOutcomes ==
    {[panic |-> FALSE, color |-> c] : c \in TraceColors}
        \cup {[panic |-> TRUE, color |-> V(0, 0, 0)]}

RECURSIVE Repeat(_, _)
Repeat(x, k) == IF k = 0 THEN <<>> ELSE <<x>> \o Repeat(x, k - 1)

\* the vectors emit_rays returns for one row of two pixels: the entries of
\* pixel (0, 0), then those of pixel (1, 0)
EmittedVecs ==
    { Repeat(<<0, 0>>, k0) \o Repeat(<<1, 0>>, k1) :
        k0 \in 1..MaxPerPixel, k1 \in 1..MaxPerPixel }

Min2(a, b) == IF a < b THEN a ELSE b

\* Chunks::next: storage holds the next `size` items of the iterator, fewer
\* at its end; None when storage is empty.  The items are named by their
\* index.
Chunks_next(len_, at, size) ==
    IF Min2(at + size, len_) <= at THEN None
    ELSE Some([k \in 1..(Min2(at + size, len_) - at) |-> at + k])

\* a worker thread that waits for a job
Idle == [pc |-> "idle", job |-> <<>>, i |-> 0, p |-> None]

\* `let raw = vec![vec3!(0, 0, 0); (WIDTH * HEIGHT) as usize]` and
\* ThreadPool::new
PoolInit ==
    /\ NoWorld
    /\ phase = "render"
    /\ \E v \in EmittedVecs :
          /\ emit = [rays |-> v, pc |-> "collect"]
          /\ pool = [ at |-> 0, queue |-> <<>>,
                      workers |-> [t \in 1..NumWorkers |-> Idle],
                      joined |-> FALSE,
                      traced |-> [k \in 1..Len(v) |-> <<>>],
                      added |-> [k \in 1..Len(v) |-> 0] ]
    /\ raw = [k \in 1..(WIDTH * HEIGHT) |-> V(0, 0, 0)]

\* `for vec in chunks(128, ...) { pool.execute(...) }`: one round
Execute ==
    /\ phase = "render"
    /\ ~pool.joined
    /\ \E c \in {Chunks_next(Len(emit.rays), pool.at, ChunkSize)} :
          /\ IsSome(c)
          /\ pool' = [pool EXCEPT !.at = @ + Len(c[1]),
                                  !.queue = Append(@, c[1])]
    /\ UNCHANGED <<trace_vars, geom_vars, twin_vars, emit, raw>>

\* a worker takes the oldest job of the queue
TakeJob ==
    /\ phase = "render"
    /\ pool.queue # <<>>
    /\ \E t \in 1..NumWorkers :
          /\ pool.workers[t].pc = "idle"
          /\ pool' = [pool EXCEPT
                        !.queue = Tail(@),
                        !.workers[t] = [pc |-> "trace", job |-> Head(pool.queue),
                                        i |-> 1, p |-> None]]
    /\ UNCHANGED <<trace_vars, geom_vars, twin_vars, emit, raw>>

\* `let p = world.trace(&ray, TRACE_DEPTH);`
TraceSample ==
    /\ phase = "render"
    /\ \E t \in 1..NumWorkers, o \in TraceOutcomes :
          /\ pool.workers[t].pc = "trace"
          /\ IF o.panic
             THEN pool' = [pool EXCEPT !.workers[t] = Idle]
             ELSE pool' = [pool EXCEPT
                             !.workers[t].pc = "add",
                             !.workers[t].p = Some(o.color),
                             !.traced[pool.workers[t].job[pool.workers[t].i]] =
                                 Append(@, o.color)]
    /\ UNCHANGED <<trace_vars, geom_vars, twin_vars, emit, raw>>

\* an update that overwrites the pixel
AccumulateLast(pixel, p) == p

\* `+=` on the pixel
Accumulate(pixel, p) == VAdd(pixel, p)

\* (h * WIDTH + w) as usize, counted from 1
PixelIndex(entry) == entry[2] * WIDTH + entry[1] + 1

\* `raw.lock()[(h * WIDTH + w) as usize] += p;` and the next round of the
\* job's loop; the lock is held for the whole statement
AddSample ==
    /\ phase = "render"
    /\ \E t \in 1..NumWorkers :
          /\ pool.workers[t].pc = "add"
          /\ \E k \in {pool.workers[t].job[pool.workers[t].i]} :
                /\ raw' = [raw EXCEPT ![PixelIndex(emit.rays[k])] =
                                          Accumulate(@, pool.workers[t].p[1])]
                /\ pool' = [pool EXCEPT
                              !.added[k] = @ + 1,
                              !.workers[t] =
                                  IF pool.workers[t].i < Len(pool.workers[t].job)
                                  THEN [@ EXCEPT !.pc = "trace", !.i = @ + 1, !.p = None]
                                  ELSE Idle]
    /\ UNCHANGED <<trace_vars, geom_vars, twin_vars, emit>>

\* pool.join() returns: every job was handed in, none is queued or running
Join ==
    /\ phase = "render"
    /\ ~pool.joined
    /\ IsNone(Chunks_next(Len(emit.rays), pool.at, ChunkSize))
    /\ pool.queue = <<>>
    /\ \A t \in 1..NumWorkers : pool.workers[t].pc = "idle"
    /\ pool' = [pool EXCEPT !.joined = TRUE]
    /\ UNCHANGED <<trace_vars, geom_vars, twin_vars, emit, raw>>

PoolNext ==
    \/ Execute
    \/ TakeJob
    \/ TraceSample
    \/ AddSample
    \/ Join

PoolSpec == PoolInit /\ [][PoolNext]_vars

\* the sum of the colors world.trace returned for the rays 1..k of the pixel
RECURSIVE SumTraced(_, _)
SumTraced(pixel, k) ==
    IF k = 0 THEN V(0, 0, 0)
    ELSE IF PixelIndex(emit.rays[k]) = pixel /\ pool.traced[k] # <<>>
    THEN VAdd(SumTraced(pixel, k - 1), pool.traced[k][1])
    ELSE SumTraced(pixel, k - 1)

\* C12: for every interleaving of the jobs, after pool.join() every ray was
\* traced once and added once, and every pixel's accumulator is the sum of
\* the trace results of the rays emitted for it.
C12_EverySampleOnce ==
    pool # None /\ pool.joined =>
        /\ \A k \in 1..Len(emit.rays) :
              Len(pool.traced[k]) = 1 /\ pool.added[k] = 1
        /\ \A pixel \in 1..(WIDTH * HEIGHT) :
              raw[pixel] = SumTraced(pixel, Len(emit.rays))

\* what holds for every interleaving, panics included: no update is lost
\* and none is made twice, so after join every accumulator is the sum of the
\* results of the rays of its pixel that were traced
C12_NoLostUpdate ==
    pool # None /\ pool.joined =>
        /\ \A k \in 1..Len(emit.rays) :
              Len(pool.traced[k]) <= 1 /\ pool.added[k] = Len(pool.traced[k])
        /\ \A pixel \in 1..(WIDTH * HEIGHT) :
              raw[pixel] = SumTraced(pixel, Len(emit.rays))


(***************************************************************************)
(* Two runs of World::trace from the same random state.  The first run     *)
(* draws freely and records every value thread_rng() hands out; the second *)
(* run traces the same ray at the same depth through the same World with   *)
(* the generator set back, so that it hands out the recorded values again. *)
(***************************************************************************)
\* the worlds traced twice: one object, or the moving sphere in front of
\* the cube; with or without the sky
TwinWorlds ==
    { <<o>> : o \in ObjCatalog } \cup
    { << Object(Sphere(V(0, 0, 4), I(1)), Transparent(I(0), Q(3, 2), White), V(0, 0, 1)),
         Object(Cube(V(0, 0, -4), V(1, 0, 0), V(0, 1, 0), I(2)), Metal(I(0), Q(1, 2), White),
                Zero3) >> }

TwinLights == {<<>>, <<SkyLight>>}

\* the first call world.trace(&ray, depth) on a World that is built
TwinInit ==
    /\ objects \in TwinWorlds
    /\ lights \in TwinLights
    /\ phase = "trace"
    /\ \E ray \in PrimaryRays, depth \in 1..MaxDepth :
          /\ root = Some([ray |-> ray, depth |-> depth])
          /\ stack = <<Frame(ray, depth)>>
    /\ result = None
    /\ lastRet = None
    /\ call = None
    /\ ret = None
    /\ rng = <<>>
    /\ twin = [run |-> 1, steps |-> <<>>, at |-> 0]
    /\ NoRender

\* the second call world.trace(&ray, depth), with the same arguments
TraceAgain ==
    /\ twin.run = 1
    /\ phase \in {"done", "panic"}
    /\ stack' = <<Frame(root[1].ray, root[1].depth)>>
    /\ phase' = "trace"
    /\ result' = None
    /\ lastRet' = None
    /\ twin' = [twin EXCEPT !.run = 2]
    /\ UNCHANGED <<objects, lights, root, call, ret, rng, render_vars>>

TwinNext ==
    \/ TraceEnter
    \/ LookLight
    \/ LightsDone
    \/ HitScatter
    \/ TraceCall
    \/ Render
    \/ TraceAgain

TwinSpec == TwinInit /\ [][TwinNext]_vars

Reverse(s) == [i \in 1..Len(s) |-> s[Len(s) + 1 - i]]

\* C14: the record Ray::hit returns, and with it the material World::trace
\* shades, does not depend on the order in which the objects were added:
\* the reversed world gives the same record, objects hit at equal distance
\* included (each object keeps its own draw of moving_delta).
C14_OrderIndependent ==
    phase = "trace" /\ Top.pc = "hit" =>
        \A ts \in [1..Len(objects) -> MovingDraws] :
            Ray_hit(Top.ray, objects, ts) = Ray_hit(Top.ray, Reverse(objects), Reverse(ts))


(***************************************************************************)
(* The lights of World::trace: traces through worlds of at most one        *)
(* object and one or two lights                                            *)
(***************************************************************************)
MaxClaimers == 2

LightWorlds == {<<>>} \cup {<<o>> : o \in ObjCatalog}

LightSeqs ==
    UNION { [1..n -> LightCatalog] : n \in 1..MaxClaimers }

\* the call world.trace(&ray, depth) on a World that is built
LightInit ==
    /\ objects \in LightWorlds
    /\ lights \in LightSeqs
    /\ phase = "trace"
    /\ \E ray \in PrimaryRays, depth \in 1..MaxDepth :
          /\ root = Some([ray |-> ray, depth |-> depth])
          /\ stack = <<Frame(ray, depth)>>
    /\ result = None
    /\ lastRet = None
    /\ call = None
    /\ ret = None
    /\ NoTwin
    /\ NoRender

LightNext ==
    \/ TraceEnter
    \/ LookLight
    \/ LightsDone
    \/ HitScatter
    \/ TraceCall
    \/ Render

LightSpec == LightInit /\ [][LightNext]_vars

\* (1 - t) * (1, 1, 1) + t * (0.5, 0.7, 1.0) with t = 0.5 * (dir.z + 1),
\* component by component
SkyGradientAt(t) ==
    << FSub(I(1), FMul(Q(1, 2), t)), FSub(I(1), FMul(Q(3, 10), t)), FAdd(FSub(I(1), t), t) >>

SkyGradient(dir) == SkyGradientAt(FDiv(FAdd(dir[3], I(1)), I(2)))

\* the ray hits no object, wherever moving_delta puts the moving ones
Misses(ray) ==
    \A ts \in [1..Len(objects) -> MovingDraws] :
        Ray_hit(ray, objects, ts) = [panic |-> FALSE, rec |-> None]

\* the lights other than the sky that answer the ray with a color
OtherClaims(ray) ==
    { i \in 1..Len(lights) :
        /\ lights[i] # SkyLight
        /\ \E ts \in [1..Len(objects) -> MovingDraws] :
              IsSome(looked(lights[i], ray, objects, ts).color) }

SkyLights == {i \in 1..Len(lights) : lights[i] = SkyLight}

\* SkyLight::looked answers exactly when Ray::hit finds nothing
SkyAnswersOnMiss(ray) ==
    \A ts \in [1..Len(objects) -> MovingDraws] :
        ~Ray_hit(ray, objects, ts).panic =>
            (IsSome(looked(SkyLight, ray, objects, ts).color)
                <=> IsNone(Ray_hit(ray, objects, ts).rec))

\* C15 as stated: with a SkyLight installed and depth >= 1, a ray that hits
\* no object makes World::trace return exactly the sky gradient of its
\* direction.
C15_SkyGradientAlways ==
    lastRet # None /\ Returned.frame.depth >= 1 /\ SkyLights # {}
                   /\ Misses(Returned.frame.ray) =>
        Returned.value = SkyGradient(Returned.frame.ray.dir)

\* C15, amended: with one SkyLight installed, depth >= 1 and no other light
\* that claims the ray, a ray that hits no object makes World::trace return
\* exactly the sky gradient of its direction; and SkyLight::looked returns
\* Some exactly when Ray::hit returns None.
C15_SkyGradient ==
    /\ lastRet # None /\ Returned.frame.depth >= 1 /\ Cardinality(SkyLights) = 1
                      /\ OtherClaims(Returned.frame.ray) = {}
                      /\ Misses(Returned.frame.ray) =>
          Returned.value = SkyGradient(Returned.frame.ray.dir)
    /\ phase = "trace" /\ Top.pc = "lights" => SkyAnswersOnMiss(Top.ray)

\* a trace of the ray that looks down from (0, 0, -2) into the empty sky,
\* with a PointLight beside the SkyLight, has returned the gradient
C15_Witness ==
    /\ lastRet # None
    /\ Returned.frame.depth >= 1
    /\ Cardinality(SkyLights) = 1
    /\ Len(lights) = 2
    /\ OtherClaims(Returned.frame.ray) = {}
    /\ Misses(Returned.frame.ray)
    /\ Returned.frame.ray.dir = V(0, 0, -1)
    /\ Returned.value = V(1, 1, 1)

\* the colors the lights answered the frame with
Claims(f) == {i \in 1..Len(f.looked) : IsSome(f.looked[i])}

RECURSIVE SumClaims(_, _)
SumClaims(f, k) ==
    IF k = 0 THEN Black
    ELSE IF IsSome(f.looked[k]) THEN VAdd(SumClaims(f, k - 1), f.looked[k][1])
    ELSE SumClaims(f, k - 1)

\* C19: at depth >= 1, a call in which at least one light's looked returns a
\* color returns the sum of the colors of all the claiming lights, after
\* asking every light, and does no nearest-hit shading: it never reaches
\* Ray::hit, scatter, render or a recursive trace.
C19_LightsShortCircuit ==
    /\ \A f \in Frames :
          Claims(f) # {} =>
              /\ f.pc = "lights"
              /\ IsNone(f.hit) /\ f.rays = <<>> /\ f.traced = <<>> /\ f.calls = <<>>
    /\ lastRet # None /\ Claims(Returned.frame) # {} =>
          /\ Returned.kind = "light"
          /\ Len(Returned.frame.looked) = Len(lights)
          /\ Returned.frame.consulted = Len(lights)
          /\ Returned.value = SumClaims(Returned.frame, Len(lights))
          /\ IsNone(Returned.frame.hit) /\ Returned.frame.calls = <<>>

\* a call that returned the sum of two claims: the sky and the LightShape
C19_Witness ==
    /\ lastRet # None
    /\ Returned.kind = "light"
    /\ Cardinality(Claims(Returned.frame)) = 2
    /\ Returned.frame.looked[1] # Returned.frame.looked[2]
    /\ Returned.value = VAdd(Returned.frame.looked[1][1], Returned.frame.looked[2][1])


(***************************************************************************)
(* The remaining operators of Vec3 (util.rs), each with the operand order  *)
(* of its impl                                                             *)
(***************************************************************************)
\* Add<f64> for Vec3
VAddS(a, k) == <<FAdd(a[1], k), FAdd(a[2], k), FAdd(a[3], k)>>

\* Add<Vec3> for f64: rhs.x + self
SAddV(k, a) == <<FAdd(a[1], k), FAdd(a[2], k), FAdd(a[3], k)>>

\* Sub<f64> for Vec3
VSubS(a, k) == <<FSub(a[1], k), FSub(a[2], k), FSub(a[3], k)>>

\* a subtraction that takes the scalar from the vector
SSubVSwapped(k, a) == <<FSub(a[1], k), FSub(a[2], k), FSub(a[3], k)>>

\* Sub<Vec3> for f64: self - rhs.x
SSubV(k, a) == <<FSub(k, a[1]), FSub(k, a[2]), FSub(k, a[3])>>

\* Mul<Vec3> for f64: rhs.x * self
SMulV(k, a) == <<FMul(a[1], k), FMul(a[2], k), FMul(a[3], k)>>

\* Div<Vec3> for f64: self / rhs.x
SDivV(k, a) == <<FDiv(k, a[1]), FDiv(k, a[2]), FDiv(k, a[3])>>

\* Div<Vec3> for Vec3
VDivV(a, b) == <<FDiv(a[1], b[1]), FDiv(a[2], b[2]), FDiv(a[3], b[3])>>

\* AddAssign, SubAssign, MulAssign, DivAssign: the value of self afterwards
AddAssign(a, b) == <<FAdd(a[1], b[1]), FAdd(a[2], b[2]), FAdd(a[3], b[3])>>

AddAssignS(a, k) == <<FAdd(a[1], k), FAdd(a[2], k), FAdd(a[3], k)>>

SubAssign(a, b) == <<FSub(a[1], b[1]), FSub(a[2], b[2]), FSub(a[3], b[3])>>

SubAssignS(a, k) == <<FSub(a[1], k), FSub(a[2], k), FSub(a[3], k)>>

MulAssign(a, k) == <<FMul(a[1], k), FMul(a[2], k), FMul(a[3], k)>>

DivAssign(a, k) == <<FDiv(a[1], k), FDiv(a[2], k), FDiv(a[3], k)>>

\* the operators util.rs implements: the sign, the kinds of the two operands
\* (v a Vec3, s an f64) and whether it is the assigning form
Vec3Ops ==
    { <<"+", "v", "v", FALSE>>, <<"+", "v", "s", FALSE>>, <<"+", "s", "v", FALSE>>,
      <<"-", "v", "v", FALSE>>, <<"-", "v", "s", FALSE>>, <<"-", "s", "v", FALSE>>,
      <<"*", "v", "v", FALSE>>, <<"*", "v", "s", FALSE>>, <<"*", "s", "v", FALSE>>,
      <<"/", "v", "v", FALSE>>, <<"/", "v", "s", FALSE>>, <<"/", "s", "v", FALSE>>,
      <<"+", "v", "v", TRUE>>, <<"+", "v", "s", TRUE>>,
      <<"-", "v", "v", TRUE>>, <<"-", "v", "s", TRUE>>,
      <<"*", "v", "s", TRUE>>, <<"/", "v", "s", TRUE>> }

\* the impl the compiler picks for `a op b` or `a op= b`
Vec3_op(op, a, b) ==
    CASE op = <<"+", "v", "v", FALSE>> -> VAdd(a, b)
      [] op = <<"+", "v", "s", FALSE>> -> VAddS(a, b)
      [] op = <<"+", "s", "v", FALSE>> -> SAddV(a, b)
      [] op = <<"-", "v", "v", FALSE>> -> VSub(a, b)
      [] op = <<"-", "v", "s", FALSE>> -> VSubS(a, b)
      [] op = <<"-", "s", "v", FALSE>> -> SSubV(a, b)
      [] op = <<"*", "v", "v", FALSE>> -> VMul(a, b)
      [] op = <<"*", "v", "s", FALSE>> -> VScale(a, b)
      [] op = <<"*", "s", "v", FALSE>> -> SMulV(a, b)
      [] op = <<"/", "v", "v", FALSE>> -> VDivV(a, b)
      [] op = <<"/", "v", "s", FALSE>> -> VDivS(a, b)
      [] op = <<"/", "s", "v", FALSE>> -> SDivV(a, b)
      [] op = <<"+", "v", "v", TRUE>> -> AddAssign(a, b)
      [] op = <<"+", "v", "s", TRUE>> -> AddAssignS(a, b)
      [] op = <<"-", "v", "v", TRUE>> -> SubAssign(a, b)
      [] op = <<"-", "v", "s", TRUE>> -> SubAssignS(a, b)
      [] op = <<"*", "v", "s", TRUE>> -> MulAssign(a, b)
      [] op = <<"/", "v", "s", TRUE>> -> DivAssign(a, b)

(***************************************************************************)
(* Calls of the functions of ray.rs, util.rs, light.rs and the materials   *)
(* on the values below                                                     *)
(***************************************************************************)
VecArgs == {V(1, 2, 3), V(0, -1, 2), <<Q(1, 2), I(4), I(-2)>>}

ScalarArgs == {I(2), I(0), Q(-1, 2)}

ArgsOf(kind) == IF kind = "v" THEN VecArgs ELSE ScalarArgs

MaxSum == 2

SumArgs == UNION { [1..n -> VecArgs] : n \in 0..MaxSum }

\* the points a camera at the origin is made to look at: along the axes,
\* straight up and down included, and two oblique ones
LookPoints ==
    AxisDirs \cup {V(3, 4, 0), V(0, 3, -4)}

\* the draws of gen_point_in_sphere: sin and cos of phi in [-pi/2, pi/2)
\* and of theta in [0, 2 pi)
PhiDraws == {<<I(0), I(1)>>, <<Q(3, 5), Q(4, 5)>>, <<Q(-4, 5), Q(3, 5)>>, <<I(-1), I(0)>>}

ThetaDraws == {<<I(0), I(1)>>, <<Q(4, 5), Q(3, 5)>>, <<I(1), I(0)>>, <<Q(-3, 5), Q(-4, 5)>>}

SphereDraws ==
    { [sphi |-> ph[1], cphi |-> ph[2], sth |-> th[1], cth |-> th[2]] :
        ph \in PhiDraws, th \in ThetaDraws }

Radii == {I(0), Q(1, 2), I(1), I(2)}

\* the functions that make a secondary ray from a hit
SecondaryKinds ==
    { "reflect", "refract", "Metal::scatter", "LambertianModel::scatter",
      "Transparent::scatter", "PointLight::is_in_shadow", "LightSource::is_in_shadow" }

\* a PointLight straight above the offset hit point of a ray that came
\* straight down
LightAbove == PointLight(<<I(0), I(0), Q(1001, 1000)>>)

\* the secondary rays the function makes from the hit, as a sequence
Secondary(kind, hit, ior, a) ==
    CASE kind = "reflect" -> <<reflect(hit)>>
      [] kind = "refract" -> refract(hit, ior)
      [] kind = "Metal::scatter" -> scatter(Metal(Q(1, 2), I(1), White), hit, a)
      [] kind = "LambertianModel::scatter" -> scatter(LambertianModel(I(1), White), hit, a)
      [] kind = "Transparent::scatter" -> scatter(Transparent(I(0), ior, White), hit, a)
      [] kind = "PointLight::is_in_shadow" -> <<PointLight_shadow_ray(LightAbove, hit)>>
      [] kind = "LightSource::is_in_shadow" -> <<Default_shadow_ray(hit)>>

\* the square roots look takes for the new sight are exact
ExactSight(sight, up) ==
    /\ ExactSqrt(len2(cross(sight, up)))
    /\ \/ cross(sight, up) = V(0, 0, 0)
       \/ ExactSqrt(len2(cross(unit(cross(sight, up)), sight)))

ExactLook(cam, point) ==
    /\ ExactUnit(VSub(point, cam.pos))
    /\ ExactSight(unit(VSub(point, cam.pos)), cam.up)

AlgInit ==
    /\ NoTrace
    /\ ret = None
    /\ \/ \E to \in LookPoints : call = <<"Camera::new", V(0, 0, 0), to>>
       \/ \E to \in {V(1, 0, 0), V(0, 3, -4)}, point \in LookPoints :
             /\ ExactLook(Camera_new(V(0, 0, 0), to), point)
             /\ call = <<"Camera::look", Camera_new(V(0, 0, 0), to), point>>
       \/ \E op \in Vec3Ops :
             \E a \in ArgsOf(op[2]), b \in ArgsOf(op[3]) : call = <<"Vec3", op, a, b>>
       \/ \E seq \in SumArgs : call = <<"sum", seq>>
       \/ \E a \in AxisDirs \cup VecArgs, b \in AxisDirs \cup VecArgs :
             call = <<"cross", a, b>>
       \/ \E radius \in Radii, a \in SphereDraws :
             call = <<"gen_point_in_sphere", radius, a>>
       \/ \E kind \in SecondaryKinds, hit \in ScatterHits, ior \in Iors :
             /\ ExactRefract(Transparent(I(0), ior, White), hit)
             /\ kind = "PointLight::is_in_shadow" => hit.dir_in = V(0, 0, -1)
             /\ call = <<"secondary", kind, hit, ior>>

\* Camera::new(from, to)
Apply_Camera_new ==
    /\ call[1] = "Camera::new"
    /\ Returns(Camera_new(call[2], call[3]))

\* camera.look(point)
Apply_Camera_look ==
    /\ call[1] = "Camera::look"
    /\ Returns(Camera_look(call[2], call[3]))

\* a op b, a op= b
Apply_Vec3_op ==
    /\ call[1] = "Vec3"
    /\ Returns(Vec3_op(call[2], call[3], call[4]))

\* seq.into_iter().sum()
Apply_sum ==
    /\ call[1] = "sum"
    /\ Returns(Vec3_sum(call[2]))

\* a.cross(b)
Apply_cross ==
    /\ call[1] = "cross"
    /\ Returns(cross(call[2], call[3]))

\* gen_point_in_sphere(radius)
Apply_gen_point_in_sphere ==
    /\ call[1] = "gen_point_in_sphere"
    /\ Returns(gen_point_in_sphere(call[2], call[3]))

\* hit.reflect(), hit.refract(ratio), m.scatter(hit), light.is_in_shadow(hit, world)
Apply_secondary ==
    /\ call[1] = "secondary"
    /\ \E a \in AngleDraws : Returns(Secondary(call[2], call[3], call[4], a))

AlgNext ==
    \/ Apply_Camera_new
    \/ Apply_Camera_look
    \/ Apply_Vec3_op
    \/ Apply_sum
    \/ Apply_cross
    \/ Apply_gen_point_in_sphere
    \/ Apply_secondary

AlgSpec == AlgInit /\ [][AlgNext]_vars

\* sight, up and right are unit vectors, pairwise orthogonal
Orthonormal(cam) ==
    /\ len2(cam.sight) = I(1) /\ len2(cam.up) = I(1) /\ len2(Camera_right(cam)) = I(1)
    /\ dot(cam.sight, cam.up) = I(0)
    /\ dot(cam.sight, Camera_right(cam)) = I(0)
    /\ dot(cam.up, Camera_right(cam)) = I(0)

\* C16: after Camera::new(from, to) or camera.look(point), for every point
\* other than the camera position, the points straight above and below it
\* included, sight, up and right are unit vectors and pairwise orthogonal.
C16_CameraBasis ==
    Applied("Camera::new") \/ Applied("Camera::look") => Orthonormal(Value)


\* the arithmetic of f64 the sign names
ScalarOp(sign, x, y) ==
    CASE sign = "+" -> FAdd(x, y)
      [] sign = "-" -> FSub(x, y)
      [] sign = "*" -> FMul(x, y)
      [] sign = "/" -> FDiv(x, y)

\* the component i of a vector operand, the value of a scalar operand
Component(kind, x, i) == IF kind = "v" THEN x[i] ELSE x

\* `a op b` taken component by component, the operands in their order
Componentwise(op, a, b) ==
    [i \in 1..3 |-> ScalarOp(op[1], Component(op[2], a, i), Component(op[3], b, i))]

\* the sum of the components i of the vectors, from the left
RECURSIVE SumOfComponents(_, _)
SumOfComponents(seq, i) ==
    IF seq = <<>> THEN I(0)
    ELSE FAdd(SumOfComponents(SubSeq(seq, 1, Len(seq) - 1), i), seq[Len(seq)][i])

\* C17: Vec3 arithmetic is component-wise for every operator and operand
\* order, the assigning forms agree with the binary ones, the sum of an
\* iterator is the component-wise sum, and cross is right-handed on the
\* basis vectors and anticommutative.
C17_Vec3Algebra ==
    /\ Applied("Vec3") =>
          /\ Value = Componentwise(call[2], call[3], call[4])
          /\ call[2][4] =>
                Value = Vec3_op(<<call[2][1], call[2][2], call[2][3], FALSE>>,
                                call[3], call[4])
    /\ Applied("sum") => Value = [i \in 1..3 |-> SumOfComponents(call[2], i)]
    /\ Applied("cross") =>
          /\ Value = VNeg(cross(call[3], call[2]))
          /\ call[2] = V(1, 0, 0) /\ call[3] = V(0, 1, 0) => Value = V(0, 0, 1)
          /\ call[2] = V(0, 1, 0) /\ call[3] = V(0, 0, 1) => Value = V(1, 0, 0)
          /\ call[2] = V(0, 0, 1) /\ call[3] = V(1, 0, 0) => Value = V(0, 1, 0)

\* 2. - vec3!(1, 2, 3) has given (1, 0, -1)
C17_Witness ==
    /\ Applied("Vec3")
    /\ call[2] = <<"-", "s", "v", FALSE>>
    /\ call[3] = I(2) /\ call[4] = V(1, 2, 3)
    /\ Value = V(1, 0, -1)


\* C18: every point gen_point_in_sphere(radius) returns has a squared
\* length of at most radius^2 + EPS, whatever angles are drawn.
C18_PointInSphere ==
    Applied("gen_point_in_sphere") => FLe(len2(Value), FAdd(Sq(call[2]), EPS))

\* a point of the sphere of radius 2, off the axes
C18_Witness ==
    /\ Applied("gen_point_in_sphere")
    /\ call[2] = I(2)
    /\ Value = <<Q(18, 25), Q(24, 25), Q(8, 5)>>
    /\ len2(Value) = I(4)

\* hit_point + EPS * dir_out
OffsetPoint(hit) == VAdd(hit.hit_point, VScale(hit.dir_out, EPS))

\* hit_point + EPS * dir for the direction of the ray itself
OffsetAlong(hit, ray) == VAdd(hit.hit_point, VScale(ray.dir, EPS))

Rays == {Value[i] : i \in 1..Len(Value)}

\* C20 as stated: pos() is hit_point + EPS * dir_out, and every secondary
\* ray built from a hit (reflect, refract, the scatter rays of the
\* materials, the shadow rays of the lights) has pos() as its origin.
C20_SecondaryFromPos ==
    Applied("secondary") =>
        /\ pos(call[3]) = OffsetPoint(call[3])
        /\ \A ray \in Rays : ray.pos = OffsetPoint(call[3])

\* C20, amended: pos() is hit_point + EPS * dir_out; reflect(), the scatter
\* rays of Metal and LambertianModel, the reflected ray of Transparent and
\* the shadow rays start at pos(); a refracted ray (refract(ratio), and the
\* ray of Transparent::scatter when refract returns one) starts at
\* hit_point + EPS * dir for its own direction dir.
C20_ReflectedFromPos ==
    Applied("secondary") =>
        /\ pos(call[3]) = OffsetPoint(call[3])
        /\ call[2] \notin {"refract", "Transparent::scatter"} =>
              Len(Value) = 1 /\ Value[1].pos = OffsetPoint(call[3])
        /\ call[2] = "refract" =>
              \A ray \in Rays : ray.pos = OffsetAlong(call[3], ray)
        /\ call[2] = "Transparent::scatter" =>
              /\ Len(Value) = 1
              /\ IF IsSome(refract(call[3], TransparentRatio(Transparent(I(0), call[4], White),
                                                            call[3])))
                 THEN Value[1].pos = OffsetAlong(call[3], Value[1])
                 ELSE Value[1].pos = OffsetPoint(call[3])

\* a Metal scatter ray that leaves from pos(), off the surface, and not from
\* the hit point
C20_Witness ==
    /\ Applied("secondary")
    /\ call[2] = "Metal::scatter"
    /\ call[3].dir_in = <<Q(3, 5), I(0), Q(-4, 5)>>
    /\ Value[1].pos = <<Q(3, 5000), I(0), Q(1, 1250)>>


(***************************************************************************)
(* Sphere::hit_info                                                        *)
(***************************************************************************)
\* the call sph.hit_info(ray) of a sphere has returned
SphereApplied == Applied("hit_info") /\ call[2].kind = "Sphere"

\* the ray starts outside the sphere and is aimed at its center
AimedFromOutside(sph, ray) ==
    /\ FGt(len2(VSub(ray.pos, sph.center)), Sq(sph.radius))
    /\ ExactUnit(VSub(sph.center, ray.pos))
    /\ ray.dir = unit(VSub(sph.center, ray.pos))

\* the value of hit_info is a hit at distance t, at the point of the ray at
\* t, and that point lies on the sphere
SphereHitAt(sph, ray, h, t) ==
    /\ IsSome(h)
    /\ h[1].distance = t
    /\ h[1].hit_point = VAdd(ray.pos, VScale(ray.dir, t))
    /\ IsFinite(t) => FEq(len2(VSub(h[1].hit_point, sph.center)), Sq(sph.radius))

\* the choice of the root, from the roots r of the quadratic
SphereRootChosen(sph, ray, h, r) ==
    IF FLt(r.delta, I(0)) \/ FLt(r.t2, I(0)) THEN h = None
    ELSE IF FLt(r.t1, I(0)) THEN SphereHitAt(sph, ray, h, r.t2)
    ELSE SphereHitAt(sph, ray, h, r.t1)

\* C21 as stated: Sphere.hit_info(ray) returns None when the discriminant
\* or the larger root t2 is negative, otherwise the smaller root t1 when t1
\* is not negative and t2 when t1 is negative; and for a ray starting
\* outside the sphere and aimed at its center the distance is
\* |origin - center| - radius.
C21_SphereDistance ==
    SphereApplied =>
        /\ SphereRootChosen(call[2], call[3], Value, SphereRoots(call[2], call[3]))
        /\ AimedFromOutside(call[2], call[3]) =>
               /\ IsSome(Value)
               /\ FEq(Value[1].distance,
                      FSub(len(VSub(call[3].pos, call[2].center)), call[2].radius))

\* C21, amended: the same choice of the root, and for a ray starting outside
\* the sphere and aimed at its center the distance is
\* |origin - center| - |radius|, the radius of a sphere being allowed to be
\* negative.
C21_SphereRootChoice ==
    SphereApplied =>
        /\ SphereRootChosen(call[2], call[3], Value, SphereRoots(call[2], call[3]))
        /\ AimedFromOutside(call[2], call[3]) =>
               /\ IsSome(Value)
               /\ FEq(Value[1].distance,
                      FSub(len(VSub(call[3].pos, call[2].center)),
                           FAbs(call[2].radius)))

\* a ray from inside the sphere has returned the larger root
C21_Witness ==
    /\ SphereApplied
    /\ FLt(SphereRoots(call[2], call[3]).t1, I(0))
    /\ IsSome(Value)
    /\ FGt(Value[1].distance, I(0))
    /\ Value[1].distance = SphereRoots(call[2], call[3]).t2


(***************************************************************************)
(* Square                                                                  *)
(***************************************************************************)
\* the corner points of a square, from its two triangles
SquareCornerSet(sq) ==
    {sq.tri0.p0, sq.tri0.p1, sq.tri0.p2, sq.tri1.p0, sq.tri1.p1, sq.tri1.p2}

\* the points the two triangles have in common
SharedPoints(sq) ==
    {sq.tri0.p0, sq.tri0.p1, sq.tri0.p2} \cap {sq.tri1.p0, sq.tri1.p1, sq.tri1.p2}

\* the two triangles have exactly two points in common, and every other
\* point of one lies on the other side of the line through them than the
\* other point of the other: they meet in a diagonal of the square
ShareDiagonal(sq) ==
    /\ Cardinality(SharedPoints(sq)) = 2
    /\ \A a \in SharedPoints(sq), b \in SharedPoints(sq) :
         \A p \in SquareCornerSet(sq) \ SharedPoints(sq),
            q \in SquareCornerSet(sq) \ SharedPoints(sq) :
               a # b /\ p # q =>
                  FLt(dot(cross(VSub(b, a), VSub(p, a)),
                          cross(VSub(b, a), VSub(q, a))), I(0))

\* the least and the greatest of a set of numbers
Least(S) == CHOOSE m \in S : \A o \in S : FLe(m, o)

Greatest(S) == CHOOSE m \in S : \A o \in S : FGe(m, o)

\* the point lies strictly inside the square of the corners cs, whose sides
\* lie along the axes: in every coordinate it lies strictly between the
\* corners, or on them where they all agree
StrictlyInside(cs, point) ==
    \A i \in 1..3 :
       IF Least({c[i] : c \in cs}) = Greatest({c[i] : c \in cs})
       THEN point[i] = Least({c[i] : c \in cs})
       ELSE /\ FLt(Least({c[i] : c \in cs}), point[i])
            /\ FLt(point[i], Greatest({c[i] : c \in cs}))

\* the point lies outside the square and its boundary
StrictlyOutside(cs, point) ==
    \E i \in 1..3 :
       \/ FLt(point[i], Least({c[i] : c \in cs}))
       \/ FGt(point[i], Greatest({c[i] : c \in cs}))

\* the normal of the plane of the square, not normalised
SquarePlane(sq) == cross(VSub(sq.tri0.p1, sq.tri0.p0), VSub(sq.tri0.p2, sq.tri0.p0))

\* the parameter at which the ray meets the plane of the square
PlaneT(sq, ray) ==
    FDiv(dot(VSub(sq.tri0.p0, ray.pos), SquarePlane(sq)), dot(ray.dir, SquarePlane(sq)))

\* the ray crosses the interior of the square, in front of its origin
CrossesInterior(sq, ray) ==
    /\ IsFinite(PlaneT(sq, ray))
    /\ FGt(PlaneT(sq, ray), I(0))
    /\ StrictlyInside(SquareCornerSet(sq),
                      VAdd(ray.pos, VScale(ray.dir, PlaneT(sq, ray))))

\* the ray misses the square: it meets the plane behind its origin or
\* outside the square, or runs beside the plane
MissesSquare(sq, ray) ==
    \/ /\ IsFinite(PlaneT(sq, ray))
       /\ \/ FLt(PlaneT(sq, ray), I(0))
          \/ StrictlyOutside(SquareCornerSet(sq),
                             VAdd(ray.pos, VScale(ray.dir, PlaneT(sq, ray))))
    \/ /\ dot(ray.dir, SquarePlane(sq)) = I(0)
       /\ dot(VSub(sq.tri0.p0, ray.pos), SquarePlane(sq)) # I(0)

\* the call sq.hit_info(ray) of a square has returned
SquareApplied == Applied("hit_info") /\ call[2].kind = "Square"

\* C22: for every Square built by Square::new or Square::from_points the
\* two triangles share a diagonal and have disjoint interiors, so a ray hits
\* at most one of them, and Square.hit_info returns a hit for every ray that
\* crosses the interior of the square and None for every ray that misses it.
C22_SquareHit ==
    SquareApplied =>
       /\ ShareDiagonal(call[2])
       /\ ~(/\ IsSome(Triangle_hit_info(call[2].tri0, call[3]))
            /\ IsSome(Triangle_hit_info(call[2].tri1, call[3])))
       /\ CrossesInterior(call[2], call[3]) => IsSome(Value)
       /\ MissesSquare(call[2], call[3]) => Value = None

\* the part of C22 the squares of Square::new have, away from the diagonal:
\* a hit for every ray that crosses the interior, None for every ray that
\* misses the square
SquareNewHit ==
    SquareApplied /\ ShareDiagonal(call[2]) =>
       /\ CrossesInterior(call[2], call[3]) => IsSome(Value)
       /\ MissesSquare(call[2], call[3]) => Value = None

\* the corner points a constructor call of Square is given
CornersOf(b) ==
    IF b[1] = "new"
    THEN { VAdd(VAdd(b[2], VScale(b[3], FMul(sx, FDiv(b[5], I(2))))),
                VScale(b[4], FMul(sy, FDiv(b[5], I(2))))) :
              sx \in {I(-1), I(1)}, sy \in {I(-1), I(1)} }
    ELSE {b[2], b[3], b[4], b[5]}

\* C30: Square.get_corners() returns the four distinct corner points of the
\* square for every Square, whether built by Square::new or by
\* Square::from_points.
C30_FourCorners ==
    Applied("get_corners") =>
       /\ Len(Value) = 4
       /\ {Value[i] : i \in 1..4} = CornersOf(call[2])
       /\ \A i \in 1..4, j \in 1..4 : i # j => Value[i] # Value[j]

\* get_corners of a square of Square::from_points returns its four corners
FromPointsCorners ==
    Applied("get_corners") /\ call[2][1] = "from_points" =>
       Value = <<call[2][2], call[2][3], call[2][4], call[2][5]>>


(***************************************************************************)
(* Cube                                                                    *)
(***************************************************************************)
\* the corners of the square of half side h centered at c + h * a, with its
\* sides along b and d
FaceCorners(c, a, b, d, h) ==
    { VAdd(VAdd(VAdd(c, VScale(a, h)), VScale(b, FMul(sb, h))), VScale(d, FMul(sd, h))) :
         sb \in {I(-1), I(1)}, sd \in {I(-1), I(1)} }

\* the six faces of the cube of center c and half side h on the axes x, y, z
SixFaces(c, x, y, z, h) ==
    { FaceCorners(c, x, y, z, h), FaceCorners(c, VNeg(x), y, z, h),
      FaceCorners(c, y, z, x, h), FaceCorners(c, VNeg(y), z, x, h),
      FaceCorners(c, z, x, y, h), FaceCorners(c, VNeg(z), x, y, h) }

\* the faces of a Cube on its axes x, y and x cross y
FacesOf(cube) ==
    SixFaces(cube.center, unit(cube.x), unit(cube.y),
             cross(unit(cube.x), unit(cube.y)), FDiv(cube.len, I(2)))

\* the hits of the ray on the faces, face by face
FaceHits(cube, ray) == [i \in 1..6 |-> Square_hit_info(Cube_squares(cube)[i], ray)]

\* the call cube.hit_info(ray) of a cube has returned
CubeApplied == Applied("hit_info") /\ call[2].kind = "Cube"

\* C23: Cube.squares() builds the six faces of the cube, one square of side
\* len centered at center +/- (len/2) * axis for each of the axes x, y and
\* x cross y, and Cube.hit_info returns the hit of minimum distance among
\* the faces the ray hits, or None when it hits none.
C23_CubeNearestFace ==
    CubeApplied =>
       /\ Len(Cube_squares(call[2])) = 6
       /\ {SquareCornerSet(Cube_squares(call[2])[i]) : i \in 1..6} = FacesOf(call[2])
       /\ Cardinality(FacesOf(call[2])) = 6
       /\ \A i \in 1..6 : ShareDiagonal(Cube_squares(call[2])[i])
       /\ Value = None <=> \A i \in 1..6 : FaceHits(call[2], call[3])[i] = None
       /\ IsSome(Value) =>
             /\ \E i \in 1..6 : FaceHits(call[2], call[3])[i] = Value
             /\ \A i \in 1..6 :
                   IsSome(FaceHits(call[2], call[3])[i]) =>
                      FLe(Value[1].distance, FaceHits(call[2], call[3])[i][1].distance)

\* a ray has hit two faces at different distances and the nearer hit is
\* returned
C23_Witness ==
    /\ CubeApplied
    /\ IsSome(Value)
    /\ \E i \in 1..6 :
          /\ IsSome(FaceHits(call[2], call[3])[i])
          /\ FLt(Value[1].distance, FaceHits(call[2], call[3])[i][1].distance)


(***************************************************************************)
(* PhongSpec: World::trace on worlds with a PhongModel surface             *)
(***************************************************************************)
PhongMaterials ==
    { PhongModel(1, Q(1, 2), White), PhongModel(2, I(1), <<Q(1, 2), I(1), I(1)>>) }

\* a Phong sphere at the origin: alone, below a triangle that shades it from
\* above, below a triangle that moves aside, and above a mirror that sends
\* the ray back to it
PhongWorlds ==
    UNION { { <<Object(Sphere(V(0, 0, 0), I(1)), m, Zero3)>>,
              << Object(Sphere(V(0, 0, 0), I(1)), m, Zero3),
                 Object(Triangle(V(-1, -1, 3), V(1, -1, 3), V(0, 1, 3)),
                        Metal(I(1), I(1), White), Zero3) >>,
              << Object(Sphere(V(0, 0, 0), I(1)), m, Zero3),
                 Object(Triangle(V(-1, -1, 3), V(1, -1, 3), V(0, 1, 3)),
                        Metal(I(1), I(1), White), V(4, 0, 0)) >>,
              << Object(Cube(V(0, 0, -4), V(1, 0, 0), V(0, 1, 0), I(2)),
                        Metal(I(0), I(1), White), Zero3),
                 Object(Sphere(V(0, 0, 0), I(1)), m, Zero3) >> } :
            m \in PhongMaterials }

PhongLights ==
    { <<>>,
      <<PointLight(V(0, 0, 7))>>,
      <<ParallelLight(V(0, 0, -1))>>,
      <<SkyLight>>,
      <<LightShape(Square_new(V(0, 0, 9), V(1, 0, 0), V(0, 1, 0), I(2)))>>,
      <<ParallelLight(V(0, 0, -1)), PointLight(V(0, 0, 7))>>,
      <<SkyLight, ParallelLight(V(0, 0, 1))>> }

PhongRays ==
    { Ray_new(V(0, 0, 2), V(0, 0, -1)),
      Ray_new(V(0, 0, -2), V(0, 0, 1)),
      Ray_new(V(0, 0, -2), V(0, 0, -1)) }

\* the call world.trace(&ray, depth) on one of these worlds
PhongInit ==
    /\ objects \in PhongWorlds
    /\ lights \in PhongLights
    /\ phase = "trace"
    /\ \E ray \in PhongRays, depth \in 0..MaxDepth :
          /\ root = Some([ray |-> ray, depth |-> depth])
          /\ stack = <<Frame(ray, depth)>>
    /\ result = None
    /\ lastRet = None
    /\ call = None
    /\ ret = None
    /\ NoTwin
    /\ NoRender

PhongNext ==
    \/ TraceEnter
    \/ LookLight
    \/ LightsDone
    \/ HitScatter
    \/ TraceCall
    \/ Render

PhongSpec == PhongInit /\ [][PhongNext]_vars

\* the call that returned last had a PhongModel surface as its nearest hit
PhongReturned ==
    /\ IsSome(lastRet)
    /\ IsSome(Returned.frame.hit)
    /\ Returned.frame.hit[1].material.kind = "PhongModel"

\* the colors PhongModel::render can give the hit of the frame f, over the
\* draws of the moving objects: the depth of f is not among its arguments
PhongColors(f) ==
    { PhongModel_render(f.hit[1].material, f.hit[1].info, lights, objects, d[1]).color :
         d \in RenderDraws(f.hit[1].material) }

\* C24: PhongModel.scatter returns no ray and PhongModel.render ignores the
\* traced colors, so a ray whose nearest hit has a PhongModel material
\* causes no recursive trace call, and World.trace(ray, d) returns the same
\* color for every depth d >= 1.
C24_PhongNoRecursion ==
    /\ \A i \in 1..Len(stack) :
          IsSome(stack[i].hit) /\ stack[i].hit[1].material.kind = "PhongModel" =>
             /\ stack[i].rays = <<>>
             /\ i = Len(stack)
    /\ PhongReturned =>
          /\ Returned.frame.depth >= 1
          /\ Returned.frame.calls = <<>>
          /\ Returned.frame.traced = <<>>
          /\ Returned.value \in PhongColors(Returned.frame)
          /\ (\A i \in 1..Len(objects) : objects[i].moving_to = Zero3) =>
                Cardinality(PhongColors(Returned.frame)) = 1

\* a call of depth 1 made by a mirror at depth 2 has shaded a PhongModel
\* surface under a light and returned a color that is not black
C24_Witness ==
    /\ PhongReturned
    /\ Len(stack) = 1
    /\ Top.depth = 2
    /\ Returned.frame.depth = 1
    /\ lights # <<>>
    /\ Returned.value # Black


(***************************************************************************)
(* PhongModel::render                                                      *)
(***************************************************************************)
\* x clamped to [lo, hi]
Clamped(x, lo, hi) == IF FLt(x, lo) THEN lo ELSE IF FGt(x, hi) THEN hi ELSE x

\* the specular term of a light of direction dir: (dir_out . -dir)^shininess
\* clamped to [0, 1]
SpecularTerm(m, hit, dir) ==
    Clamped(powf(dot(hit.dir_out, VNeg(dir)), m.shininess), I(0), I(1))

\* the diffuse term: normal . -dir, not below 0
DiffuseTerm(hit, dir) ==
    IF FLt(dot(hit.norm, VNeg(dir)), I(0)) THEN I(0) ELSE dot(hit.norm, VNeg(dir))

\* intensity * color of the light at the hit
LightIntensityColor(light, hit) ==
    VScale(light_color(light, hit), intensity(light, hit))

\* the contribution of a light as C25 states it: the ambient term alone in
\* shadow, (0.5 * specular + 0.5 * diffuse + 0.1) otherwise, times
\* intensity * color
StatedTerm(m, hit, light, shadow) ==
    IF shadow
    THEN VScale(LightIntensityColor(light, hit), Q(1, 10))
    ELSE VScale(LightIntensityColor(light, hit),
                FAdd(FAdd(FMul(Q(1, 2), SpecularTerm(m, hit, dir_at(light, hit))),
                          FMul(Q(1, 2), DiffuseTerm(hit, dir_at(light, hit)))),
                     Q(1, 10)))

\* the stated contributions of the lights under the draws d
StatedTerms(m, hit, d) ==
    [ i \in 1..Len(lights) |->
        StatedTerm(m, hit, lights[i],
                   is_in_shadow(lights[i], hit, objects, d[i].shadow).shadow) ]

\* the contributions when a light that claims the reflected ray of the hit
\* gives the color it claims, and the others what C25 states
ClaimedOrStatedTerms(m, hit, d) ==
    [ i \in 1..Len(lights) |->
        IF IsSome(looked(lights[i], reflect(hit), objects, d[i].look).color)
        THEN looked(lights[i], reflect(hit), objects, d[i].look).color[1]
        ELSE StatedTerm(m, hit, lights[i],
                        is_in_shadow(lights[i], hit, objects, d[i].shadow).shadow) ]

\* the sum of the contributions times the diffuse coefficient and the color
\* of the material
Shaded(m, terms) == VMul(VScale(Vec3_sum(terms), m.diffuse), m.color)

\* C25 as stated: in PhongModel.render the contribution of a light for which
\* the hit point is in shadow is exactly 0.1 * intensity * color, and for a
\* lit point (0.5 * specular + 0.5 * diffuse + 0.1) * intensity * color, with
\* specular clamped to [0, 1] and diffuse to >= 0; the sum over the lights is
\* multiplied by the diffuse coefficient and the material color.
C25_PhongTerms ==
    PhongReturned =>
       Returned.value \in
          { Shaded(Returned.frame.hit[1].material,
                   StatedTerms(Returned.frame.hit[1].material,
                               Returned.frame.hit[1].info, d[1])) :
               d \in RenderDraws(Returned.frame.hit[1].material) }

\* C25, amended: a light that claims the reflected ray of the hit (looked
\* on hit.reflect() is Some) contributes the color it claims; every other
\* light contributes 0.1 * intensity * color in shadow and
\* (0.5 * specular + 0.5 * diffuse + 0.1) * intensity * color when lit; the
\* sum is multiplied by the diffuse coefficient and the material color.
C25_PhongShading ==
    PhongReturned =>
       Returned.value \in
          { Shaded(Returned.frame.hit[1].material,
                   ClaimedOrStatedTerms(Returned.frame.hit[1].material,
                                        Returned.frame.hit[1].info, d[1])) :
               d \in RenderDraws(Returned.frame.hit[1].material) }

\* a PhongModel surface has been shaded under a light that does not claim
\* the reflected ray and for which the hit is in shadow of a triangle
C25_Witness ==
    /\ PhongReturned
    /\ Len(lights) = 1
    /\ Len(objects) = 2
    /\ objects[2].shape.kind = "Triangle"
    /\ objects[2].moving_to = Zero3
    /\ lights[1].kind \in {"PointLight", "ParallelLight"}
    /\ is_in_shadow(lights[1], Returned.frame.hit[1].info, objects,
                    [i \in 1..2 |-> I(0)]).shadow
    /\ Returned.frame.hit[1].info.dir_out = V(0, 0, 1)
    /\ Returned.value # Black


(***************************************************************************)
(* PointLight::is_in_shadow                                                *)
(***************************************************************************)
\* the nearest hit of the shadow ray cast from hit.pos() toward the light
ShadowRayHit(light, hit, world) ==
    Ray_hit(Ray_new(pos(hit), VSub(light.pos, pos(hit))), world,
            [i \in 1..Len(world) |-> I(0)]).rec

\* the point p is strictly closer to from than q
StrictlyCloser(from, p, q) == FLt(len2(VSub(from, p)), len2(VSub(from, q)))

\* C26: PointLight.is_in_shadow(hit, world) is true exactly when the shadow
\* ray cast from hit.pos() toward the light has a nearest hit that is
\* strictly closer to hit.pos() than the light position; it is false when
\* the shadow ray hits nothing or its nearest hit lies at or beyond the light.
C26_ShadowIffCloser ==
    Applied("is_in_shadow") =>
       /\ ~Value.panic
       /\ Value.shadow <=>
             /\ IsSome(ShadowRayHit(call[2], call[3], call[4]))
             /\ StrictlyCloser(pos(call[3]),
                               ShadowRayHit(call[2], call[3], call[4])[1].info.hit_point,
                               call[2].pos)

\* what PointLight::is_in_shadow does hold: false when the shadow ray hits
\* nothing or its nearest hit lies at or beyond the light, true when the
\* nearest hit is closer than the light by more than EPS in the squared
\* distances
ShadowBeyondSlack ==
    Applied("is_in_shadow") =>
       /\ ~Value.panic
       /\ Value.shadow =>
             /\ IsSome(ShadowRayHit(call[2], call[3], call[4]))
             /\ StrictlyCloser(pos(call[3]),
                               ShadowRayHit(call[2], call[3], call[4])[1].info.hit_point,
                               call[2].pos)
       /\ ( /\ IsSome(ShadowRayHit(call[2], call[3], call[4]))
            /\ FLt(FAdd(len2(VSub(pos(call[3]),
                                  ShadowRayHit(call[2], call[3], call[4])[1].info.hit_point)),
                        EPS),
                   len2(VSub(pos(call[3]), call[2].pos))) )
             => Value.shadow

(***************************************************************************)
(* Building a Metal (material/compose.rs): Metal::new, then any builder    *)
(* calls, then scatter on a hit that reflects straight up.  call holds the *)
(* Metal built so far and the number of builder calls made; after scatter  *)
(* it holds the Metal and the angles gen_point_in_sphere drew.             *)
(***************************************************************************)
MaxBuilderCalls == 3

FuzzInputs == {I(0), Q(1, 2), I(1), Q(3, 2), I(2)}

AlbedoInputs == {Q(1, 2), I(1)}

ColorInputs == {V(1, 1, 1), V(1, 0, 0)}

\* the hit Metal::scatter is called on
MetalHit == HitInfo_new(I(1), V(0, 0, 1), V(0, 0, 0), V(0, 0, -1))

MetalInit ==
    /\ NoTrace
    /\ ret = None
    /\ \E fuzz \in FuzzInputs, albedo \in AlbedoInputs :
          call = <<"Metal", Metal_new(fuzz, albedo), 0>>

\* one more builder call on the Metal
Chained(m) ==
    /\ call[1] = "Metal"
    /\ call[3] < MaxBuilderCalls
    /\ call' = <<"Metal", m, call[3] + 1>>
    /\ UNCHANGED <<objects, lights, phase, root, stack, result, lastRet, ret, twin_vars, render_vars>>

Apply_with_fuzz == \E fuzz \in FuzzInputs : Chained(Metal_with_fuzz(call[2], fuzz))

Apply_with_albedo == \E albedo \in AlbedoInputs : Chained(Metal_with_albedo(call[2], albedo))

Apply_with_color == \E color \in ColorInputs : Chained(Metal_with_color(call[2], color))

\* metal.scatter(hit), with the angles a drawn by gen_point_in_sphere
Apply_Metal_scatter ==
    /\ call[1] = "Metal"
    /\ \E a \in SphereDraws :
          /\ ExactUnit(VAdd(reflect(MetalHit).dir, gen_point_in_sphere(call[2].fuzz, a)))
          /\ call' = <<"Metal::scatter", call[2], a>>
          /\ ret' = Some(scatter(call[2], MetalHit, a))
    /\ UNCHANGED <<objects, lights, phase, root, stack, result, lastRet, twin_vars, render_vars>>

MetalNext ==
    \/ Apply_with_fuzz
    \/ Apply_with_albedo
    \/ Apply_with_color
    \/ Apply_Metal_scatter

MetalSpec == MetalInit /\ [][MetalNext]_vars

\* the point Metal::scatter added to the reflected direction
FuzzPoint == gen_point_in_sphere(call[2].fuzz, call[3])

\* C27: the fuzz radius of a Metal is at most 1 after any sequence of
\* constructor and builder calls (Metal::new, with_fuzz, with_albedo,
\* with_color), so Metal::scatter perturbs the reflected direction by a
\* point of a sphere of radius at most 1.
C27_FuzzAtMostOne ==
    /\ call[1] = "Metal" => FLe(call[2].fuzz, I(1))
    /\ Applied("Metal::scatter") => FLe(len2(FuzzPoint), FAdd(I(1), EPS))

\* what Metal::new alone guarantees: a Metal no with_fuzz call has touched
\* has a fuzz radius of at most 1
FuzzOfNew ==
    call[1] = "Metal" /\ call[3] = 0 => FLe(call[2].fuzz, I(1))

\* a Metal scattered with the radius with_fuzz gave it
FuzzScattered ==
    Applied("Metal::scatter") => FLe(len2(FuzzPoint), FAdd(Sq(call[2].fuzz), EPS))

(***************************************************************************)
(* World::trace on every built-in material: a square in the plane z = 0    *)
(* carries the material, alone or below a mirror, and is hit straight from *)
(* above or at the angle whose sine is 3/5, where Transparent refracts     *)
(* (ior 3/4) or reflects totally (ior 1/2) along exact directions.         *)
(***************************************************************************)
ScatterMaterials ==
    { Specular(Q(9, 10)),
      Transparent(I(0), Q(3, 4), White),
      Transparent(Q(1, 2), Q(1, 2), White),
      Metal(I(0), I(1), White),
      Metal(Q(1, 2), Q(1, 2), White),
      Dielectric(Q(3, 4)),
      Dielectric(Q(1, 2)),
      LambertianModel(Q(1, 2), White),
      PhongModel(1, Q(1, 2), White) }

\* the materials whose render reads traced[0]
ReadsTraced(m) == m.kind \in {"Specular", "Transparent", "Metal", "Dielectric", "LambertianModel"}

ScatterWorlds ==
    UNION { { <<Object(Square_new(V(0, 0, 0), V(1, 0, 0), V(0, 1, 0), I(4)), m, Zero3)>>,
              << Object(Square_new(V(0, 0, 3), V(1, 0, 0), V(0, 1, 0), I(8)),
                        Specular(I(1)), Zero3),
                 Object(Square_new(V(0, 0, 0), V(1, 0, 0), V(0, 1, 0), I(4)), m, Zero3) >> } :
            m \in ScatterMaterials }

ScatterLights == {<<>>, <<SkyLight>>}

StraightDown == Ray_new(V(0, 0, 2), V(0, 0, -1))

Slanted == Ray_new(V(-1, -1, 2), V(3, 0, -4))

\* the slanted ray is sent on the materials that scatter it along a
\* direction whose length is exact
ScatterRays(world) ==
    IF \E i \in 1..Len(world) :
          \/ world[i].material.kind \in {"LambertianModel", "PhongModel"}
          \/ world[i].material.kind = "Metal" /\ world[i].material.fuzz # I(0)
    THEN {StraightDown}
    ELSE {StraightDown, Slanted}

\* the call world.trace(&ray, depth) on one of these worlds
ScatterInit ==
    /\ objects \in ScatterWorlds
    /\ lights \in ScatterLights
    /\ phase = "trace"
    /\ \E ray \in ScatterRays(objects), depth \in 0..MaxDepth :
          /\ root = Some([ray |-> ray, depth |-> depth])
          /\ stack = <<Frame(ray, depth)>>
    /\ result = None
    /\ lastRet = None
    /\ call = None
    /\ ret = None
    /\ NoTwin
    /\ NoRender

ScatterNext ==
    \/ TraceEnter
    \/ LookLight
    \/ LightsDone
    \/ HitScatter
    \/ TraceCall
    \/ Render

ScatterSpec == ScatterInit /\ [][ScatterNext]_vars

\* C28: World::trace never reads past the end of the traced colors: for
\* every material whose render reads traced[0] (Specular, Transparent,
\* Metal, Dielectric, LambertianModel) and every hit, scatter on that hit
\* returns at least one ray, and no built-in material's scatter returns
\* more than one ray, so a trace call spawns at most one recursive trace
\* call.
C28_TracedInBounds ==
    /\ phase # "panic"
    /\ \A i \in 1..Len(stack) :
          IsSome(stack[i].hit) =>
             /\ Len(stack[i].rays) <= 1
             /\ ReadsTraced(stack[i].hit[1].material) => Len(stack[i].rays) = 1
    /\ IsSome(lastRet) =>
          /\ Len(Returned.frame.calls) <= 1
          /\ Returned.kind = "shade" /\ ReadsTraced(Returned.frame.hit[1].material) =>
                Len(Returned.frame.traced) = 1

\* a Transparent surface hit at an angle of total reflection has been
\* rendered on the color of the one reflected ray it scattered
C28_Witness ==
    /\ IsSome(lastRet)
    /\ Returned.kind = "shade"
    /\ Returned.frame.hit[1].material.kind = "Transparent"
    /\ IsNone(refract(Returned.frame.hit[1].info,
                      TransparentRatio(Returned.frame.hit[1].material,
                                       Returned.frame.hit[1].info)))
    /\ Returned.frame.rays = <<reflect(Returned.frame.hit[1].info)>>
    /\ Len(Returned.frame.traced) = 1
    /\ Returned.value # Black

(***************************************************************************)
(* Chunks (util.rs, examples/scene.rs): iter.chunks(size) over a finite    *)
(* source, and the calls of next() made on it.  call holds the source, the *)
(* size and the number of items the inner iterator has handed out; ret is  *)
(* the sequence of the values next() has returned.                         *)
(***************************************************************************)
MaxSource == 4

MaxSize == 3

MaxNextCalls == 6

ChunkItems == {0, 1}

ChunkSources == UNION {[1..n -> ChunkItems] : n \in 0..MaxSource}

\* source.into_iter().chunks(size)
ChunkInit ==
    /\ NoTrace
    /\ ret = <<>>
    /\ \E source \in ChunkSources, size \in 0..MaxSize :
          call = <<"chunks", source, size, 0>>

\* the items of the source at the indexes of c
ItemsAt(source, c) == [k \in 1..Len(c) |-> source[c[k]]]

\* the iterator after next() has returned c
Advanced(c) ==
    IF IsNone(c)
    THEN /\ ret' = Append(ret, None)
         /\ call' = call
    ELSE /\ ret' = Append(ret, Some(ItemsAt(call[2], c[1])))
         /\ call' = <<"chunks", call[2], call[3], call[4] + Len(c[1])>>

\* Chunks::next
Apply_Chunks_next ==
    /\ call[1] = "chunks"
    /\ Len(ret) < MaxNextCalls
    /\ Advanced(Chunks_next(Len(call[2]), call[4], call[3]))
    /\ UNCHANGED <<objects, lights, phase, root, stack, result, lastRet, twin_vars, render_vars>>

ChunkNext == Apply_Chunks_next

ChunkSpec == ChunkInit /\ [][ChunkNext]_vars

\* the chunks next() has yielded, in order
YieldedChunks == SelectSeq(ret, IsSome)

RECURSIVE ConcatChunks(_)
ConcatChunks(cs) ==
    IF cs = <<>> THEN <<>> ELSE Head(cs)[1] \o ConcatChunks(Tail(cs))

\* next() has returned None
Exhausted == \E i \in 1..Len(ret) : IsNone(ret[i])

\* the chunks yielded so far are non-empty, all but the last of exactly
\* `size` items, and together the items the source has handed out, in
\* order; once next() has returned None it returns None again, and the
\* chunks yielded are then the whole source
ChunksPartition ==
    /\ \A i \in 1..Len(YieldedChunks) :
          /\ YieldedChunks[i][1] # <<>>
          /\ Len(YieldedChunks[i][1]) <= call[3]
          /\ i < Len(YieldedChunks) => Len(YieldedChunks[i][1]) = call[3]
    /\ ConcatChunks(YieldedChunks) = SubSeq(call[2], 1, call[4])
    /\ \A i, j \in 1..Len(ret) : i < j /\ IsNone(ret[i]) => IsNone(ret[j])
    /\ Exhausted => ConcatChunks(YieldedChunks) = call[2]

\* C29: iterating chunks(size) over a finite sequence yields non-empty
\* chunks whose concatenation is the original sequence in order, every
\* chunk but the last has exactly size elements, and next() returns None
\* once the source is exhausted; no element of the source is lost or
\* duplicated for any size, including size 0.
C29_ChunksPartition == call[1] = "chunks" => ChunksPartition

\* the same for the sizes of at least 1
ChunksOfPositiveSize == call[1] = "chunks" /\ call[3] >= 1 => ChunksPartition

=============================================================================
